---- MODULE Spec2Model ----
(***************************************************************************)
(* A model of the reactive notification primitives of mx-host-core-worker  *)
(* (src/src/generatorlistener.ts): GeneratorListener (a cell holding one   *)
(* value and a set of one-shot wake callbacks), MapGeneratorListener (a    *)
(* keyed table with per-key, key-set and whole-table callbacks) and the    *)
(* stream operators built on them (createValuePusher, chainGen, mapGen).   *)
(*                                                                         *)
(* JavaScript runs one task at a time; an async generator gives up control *)
(* only at `await` and `yield`.  Each action below is one such synchronous *)
(* run: a call made by a consumer or writer, or the continuation of an     *)
(* awaited promise.  Continuations of different promises may run in any    *)
(* order relative to the calls other tasks make in between.                *)
(***************************************************************************)
EXTENDS Integers, Sequences, FiniteSets, TLC

\* ---------------------------------------------------------------- bounds
MaxSets == 2      \* calls of the value setter in one behaviour
MaxPulls == 2     \* next() calls made on one generator

MaxTableWrites == 2   \* writes made through the table's proxy
MaxTablePulls == 2    \* next() calls made on one table generator

MaxOuterSets == 1     \* sets of the outer source of a chained stream
MaxInnerSets == 2     \* sets of the inner sources of a chained stream
MaxChainPulls == 3    \* next() calls made on the chained stream
MaxStopWrites == 1    \* sets of any source after the chained stream was stopped

MaxAcceptable == 2    \* acceptable versions listed in one service request

MaxRequest == 2       \* ids in one list of requested permissions
MaxDepth == 5         \* nested addPermission / resolvePermission calls

MaxSetups == 3        \* setupEntryChannel calls that create a channel

MaxCalls == 2         \* start() and stop() calls on the account
MaxSyncs == 1         \* sync events the client emits
MaxUserPulls == 4     \* next() calls made on the listenUserState generator

MaxAppSetups == 2     \* setupApp calls made for the app url

MaxStartCalls == 2    \* start() calls made for the account, one after another or at once

MaxAccountCalls == 2  \* calls made on the accounts service

Subs == {"s1", "s2"}     \* generators created by generate() on the cell
Values == {"a", "b"}     \* cell values, compared by identity (!==)

VARIABLES
  value,      \* GeneratorListener._value
  callbacks,  \* GeneratorListener.callbacks: the generators whose current
              \* promise a registered callback resolves
  gpc,        \* per generator: where generate() is suspended
  promise,    \* per generator: state of its local `promise`
  held,       \* per generator: operand of the `yield` being delivered
  writes,     \* history: the initial value, then every value passed to set
  recv,       \* history: per generator, the results its next() calls gave
  wakes       \* history: per generator, how often a callback of it ran

cellVars == <<value, callbacks, gpc, promise, held, writes, recv, wakes>>

VARIABLES
  map,            \* MapGeneratorListener.map: present keys -> stored value
  tcallbacks,     \* MapGeneratorListener.callbacks (generateKeys waiters)
  key_callbacks,  \* MapGeneratorListener.key_callbacks: key -> waiters
  map_callbacks,  \* MapGeneratorListener.map_callbacks (generateMap waiters)
  tgpc,           \* per table generator: where it is suspended
  tpromise,       \* per table generator: state of its local `promise`
  theld,          \* per table generator: operand of the pending yield
  nwrites,        \* history: number of writes made through the proxy
  lastWrite,      \* history: the latest write: key, value, the value stored
                  \* before it and the callbacks registered when it was made
  lastVal,        \* history: per key, the value of the latest write to it
  tpulls,         \* history: per generator, the number of next() calls
  tlast           \* history: per generator, the latest result of next()

tableVars == <<map, tcallbacks, key_callbacks, map_callbacks, tgpc, tpromise,
               theld, nwrites, lastWrite, lastVal, tpulls, tlast>>

VARIABLES
  ocell,        \* value of the outer source: a source id, or "none"
  ocallbacks,   \* callbacks of the outer source (of the outer generator)
  opc,          \* the outer generator: where it is suspended
  opromise,     \* the outer generator: state of its local `promise`
  oheld,        \* the outer generator: operand of the pending yield
  nextgen,      \* the generator mapGen yielded, on its way to chainGen's
                \* for-await loop (0: none)
  pub_gen,      \* chainGen's pub_gen (0: undefined)
  ngens,        \* inner generators created by mapT so far
  igen,         \* per inner generator: its source, suspension point, promise,
                \* yield operand, queued return(), and the state of the
                \* startChaining loop that reads it
  icell,        \* per inner source: its value
  icallbacks,   \* per inner source: its callbacks (inner generators)
  outbound_value_queue,  \* createValuePusher's queue
  isdone,       \* createValuePusher's isdone
  cpc,          \* the consumer's next() on the pusher: idle, waiting, ready
  out,          \* history: every value pushed into the queue, in order
  crecv,        \* history: what the consumer's next() calls returned
  nosets,       \* history: sets of the outer source
  nisets,       \* history: sets of inner sources
  npulls        \* history: next() calls of the consumer

chainVars == <<ocell, ocallbacks, opc, opromise, oheld, nextgen, pub_gen, ngens,
               igen, icell, icallbacks, outbound_value_queue, isdone, cpc,
               out, crecv, nosets, nisets, npulls>>

VARIABLES
  services,          \* MainWorker.services, in insertion order
  services_active,   \* MainWorker.services_active: <<descriptor, index>> of
                     \* the version descriptors set up
  service_instaces,  \* MainWorker.service_instaces: the constructors that
                     \* have an instance, in the order the Map received them
  nconstructed,      \* history: per constructor, instances it created
  nregisterAll,      \* history: per constructor, registry.registerAll calls
                     \* made with an instance of it
  rlast              \* history: the latest call made on the worker and its
                     \* outcome

regVars == <<services, services_active, service_instaces, nconstructed,
             nregisterAll, rlast>>

\* The permissions of the apps service: one call of setupAndGetEntryChannel
\* (its permission part) or of fetchAndVerifyManifest (its permission
\* report), run statement by statement.
VARIABLES
  ptable,              \* Permissions.default: per id, whether the table has
                       \* it and its Permission's inherits
  pop,                 \* the method running: "idle", "apply"
                       \* (setupAndGetEntryChannel), "resolve"
                       \* (fetchAndVerifyManifest)
  prequest,            \* app.permissions.value / manifest.request_permissions
  room,                \* whether the context given has a room_id
  ptop,                \* index of the next element of the top-level forEach
  pstack,              \* the addPermission / resolvePermission calls that
                       \* are inside their inherits.forEach: [perm, k]
  granted,             \* the set `granted`, Permission objects named by id
  acl,                 \* ch.access: the policy put at each address
  known_permissions,   \* resp.known_permissions: ids that have an entry
  unknown_permissions, \* resp.unknown_permissions
  grant_log,           \* history: the ids whose grantOn was invoked, in order
  warned,              \* history: the ids log.warn was called for, in order
  pres                 \* "none", "running", "return" or "throw"

permVars == <<ptable, pop, prequest, room, ptop, pstack, granted, acl,
              known_permissions, unknown_permissions, grant_log, warned, pres>>

\* The entry tokens of the apps service.
VARIABLES
  known_apps,     \* the urls with an App in the account's table, and whether
                  \* the App's permission list can be applied ("ok") or
                  \* holds an id that makes addPermission throw ("bad")
  app_tokens,     \* ServiceClass.app_tokens: token -> {port, context}
  timers,         \* the tokens whose setTimeout(clear, timeout) is pending
  nchannels,      \* MessageChannels created; a port is named by the number
                  \* of its channel
  spent,          \* history: <<token, how>> for the tokens redeemed or
                  \* expired since they were issued last
  elast           \* history: the latest call and its outcome

tokenVars == <<known_apps, app_tokens, timers, nchannels, spent, elast>>

\* The user state of one account of the Matrix service.
VARIABLES
  credentials,    \* the credentials of the account: "none", "stored" (in the
                  \* backend only) or "cached" (in KvBackendCache as well)
  instances,      \* instances.value[id]: "undefined" or "instance"
  state,          \* instance.state.value
  client,         \* instance.client is defined
  start_pc,       \* where the start() call stands
  stop_pending,   \* stop() calls waiting at their await
  nstarts,        \* start() calls made
  nstops,         \* stop() calls made
  nsyncs,         \* sync events the client emitted
  syncs,          \* what they were: "none", "successful" or "other"
  ulast,          \* outcome of the last start() call
  outer_pc,       \* instances.generate(id): where the generator stands
  outer_held,     \* the entry it read
  outer_promise,  \* the promise its callback resolves
  user_gen,       \* pub_gen of the chained stream
  inner_pc,       \* pub_gen: where the generator stands
  inner_held,     \* the value it read
  inner_promise,  \* the promise its callback resolves
  user_queue,     \* outbound_value_queue of the chained stream
  lpc,            \* where the listenUserState generator stands
  lheld,          \* the value its loop took from the chained stream
  delivered,      \* states the subscriber received
  on_time         \* every next() call was made and answered at its moment

userVars == <<credentials, instances, state, client, start_pc, stop_pending,
              nstarts, nstops, nsyncs, syncs, ulast, outer_pc, outer_held, outer_promise,
              user_gen, inner_pc, inner_held, inner_promise, user_queue, lpc,
              lheld, delivered, on_time>>

\* The permission list of one app of one account of the apps service, and
\* one listenPermissions subscriber.
VARIABLES
  app_entry,    \* account.value[url]: 0 when undefined, else the number of
                \* the App object stored there (Apps are numbered as made)
  perm_list,    \* app.permissions.value of that App (empty when undefined)
  lp_pc,        \* where the listenPermissions generator stands
  lp_app,       \* the App whose cell permgen listens to; 0: permgen undefined
  lp_account,   \* the promise accountgen waits for
  lp_perm,      \* the promise permgen waits for
  lp_last,      \* the list the generator yielded last
  lp_changed,   \* history: the list changed or the entry was replaced
                \* since that yield
  slast         \* history: the latest setPermissions call and its outcome

listVars == <<app_entry, perm_list, lp_pc, lp_app, lp_account, lp_perm,
              lp_last, lp_changed, slast>>

\* More of the instance of the Matrix service: its room list and what the
\* stop() calls returned.
VARIABLES
  room_list,    \* instance.room_list: the ids of the rooms in it
  stop_ret      \* history: what the stop() call that returned last returned

stopVars == <<room_list, stop_ret>>

\* Several start() calls for one account of the Matrix service.
VARIABLES
  r_cred,       \* the account has credentials
  r_table,      \* instances.value[id]: 0 when undefined, else the number of
                \* the MatrixInstance (numbered as made)
  r_ninst,      \* MatrixInstances made
  r_state,      \* per instance: state.value
  r_client,     \* per instance: the number of its client, 0 without one
  r_nclients,   \* clients made
  r_live,       \* the clients made and not stopped
  r_stops,      \* per instance: stop() calls waiting at their await
  r_pc,         \* per call: where start() stands
  r_inst        \* per call: its local `instance` (0: undefined)

raceVars == <<r_cred, r_table, r_ninst, r_state, r_client, r_nclients, r_live,
              r_stops, r_pc, r_inst>>

\* The accounts service and the storage under it.
VARIABLES
  a_stored,         \* the backend's value of 'accounts.list'
  a_cache,          \* KvBackendCache.cache['accounts.list']
  a_map,            \* the ids of ServiceClass.map.value
  has_lazy_loaded,  \* ServiceClass.has_lazy_loaded
  a_queue,          \* the requests the backend has not answered, in order
  a_pc,             \* per call: where it stands
  a_kind,           \* per call: the operation called
  a_val,            \* per call: the list it read or wrote
  a_overlap         \* history: a call was made while another was running

acctVars == <<a_stored, a_cache, a_map, has_lazy_loaded, a_queue, a_pc, a_kind,
              a_val, a_overlap>>

lateVars == <<raceVars, acctVars>>

appVars == <<listVars, stopVars, lateVars>>

svcVars == <<permVars, tokenVars, userVars, appVars>>

vars == <<cellVars, tableVars, chainVars, regVars, svcVars>>

NoVal == "undefined"

\* ------------------------------------------------ GeneratorListener (cell)

\* pushUpdate() without callbacks.clear().
pushUpdateNoClear(cbs, prom) ==
  [callbacks |-> cbs,
   promise   |-> [s \in DOMAIN prom |-> IF s \in cbs THEN "resolved" ELSE prom[s]],
   invoked   |-> cbs]

\* pushUpdate(): callbacks.forEach(c => c()); callbacks.clear().  A callback
\* `() => r()` resolves the promise of the generator that registered it.
pushUpdate(cbs, prom) ==
  [callbacks |-> {},
   promise   |-> [s \in DOMAIN prom |-> IF s \in cbs THEN "resolved" ELSE prom[s]],
   invoked   |-> cbs]

\* The setter comparing after it assigned: update is always false.
SetValueLateCompare(v) ==
  /\ Len(writes) <= MaxSets
  /\ value' = v
  /\ writes' = Append(writes, v)
  /\ UNCHANGED <<callbacks, promise, wakes, gpc, held, recv>>

\* The setter notifying without storing v.
SetValueNoStore(v) ==
  /\ Len(writes) <= MaxSets
  /\ LET pu == pushUpdate(callbacks, promise)
     IN IF value # v
          THEN /\ callbacks' = pu.callbacks
               /\ promise' = pu.promise
               /\ wakes' = [s \in Subs |-> wakes[s] + IF s \in pu.invoked THEN 1 ELSE 0]
          ELSE UNCHANGED <<callbacks, promise, wakes>>
  /\ writes' = Append(writes, v)
  /\ UNCHANGED <<value, gpc, held, recv>>

\* set value(v): update = _value !== v; _value = v; if (update) pushUpdate()
SetValue(v) ==
  /\ Len(writes) <= MaxSets
  /\ LET update == value # v
         pu == pushUpdate(callbacks, promise)
     IN /\ value' = v
        /\ IF update
             THEN /\ callbacks' = pu.callbacks
                  /\ promise' = pu.promise
                  /\ wakes' = [s \in Subs |-> wakes[s] + IF s \in pu.invoked THEN 1 ELSE 0]
             ELSE UNCHANGED <<callbacks, promise, wakes>>
  /\ writes' = Append(writes, v)
  /\ UNCHANGED <<gpc, held, recv>>

\* One turn of the loop of generate() up to its yield:
\*   promise = new Promise(r => this.callbacks.add(() => r())); yield this._value
GenLoop(s) ==
  /\ promise' = [promise EXCEPT ![s] = "pending"]
  /\ callbacks' = callbacks \cup {s}
  /\ held' = [held EXCEPT ![s] = value]
  /\ gpc' = [gpc EXCEPT ![s] = "yielding"]

\* generate() without its `await promise`: each next() runs one more turn.
PullNoAwait(s) ==
  /\ Len(recv[s]) < MaxPulls
  /\ gpc[s] \in {"start", "yield"}
  /\ GenLoop(s)
  /\ recv' = [recv EXCEPT ![s] = Append(@, [val |-> NoVal, start |-> Len(writes), done |-> 0])]
  /\ UNCHANGED <<value, writes, wakes>>

\* The consumer calls next().  On a generator not yet started the body runs
\* to its first yield; on one suspended at yield it runs on to `await promise`.
Pull(s) ==
  /\ Len(recv[s]) < MaxPulls
  /\ \/ /\ gpc[s] = "start"
        /\ GenLoop(s)
     \/ /\ gpc[s] = "yield"
        /\ gpc' = [gpc EXCEPT ![s] = "await"]
        /\ UNCHANGED <<promise, callbacks, held>>
  /\ recv' = [recv EXCEPT ![s] = Append(@, [val |-> NoVal, start |-> Len(writes), done |-> 0])]
  /\ UNCHANGED <<value, writes, wakes>>

\* `await promise` continues once the promise is resolved: next loop turn.
Resume(s) ==
  /\ gpc[s] = "await"
  /\ promise[s] = "resolved"
  /\ GenLoop(s)
  /\ UNCHANGED <<value, writes, recv, wakes>>

\* The yield settles the pending next() with the value it read.
Deliver(s) ==
  /\ gpc[s] = "yielding"
  /\ gpc' = [gpc EXCEPT ![s] = "yield"]
  /\ recv' = [recv EXCEPT ![s][Len(recv[s])] = [@ EXCEPT !.val = held[s], !.done = Len(writes)]]
  /\ held' = [held EXCEPT ![s] = NoVal]
  /\ UNCHANGED <<value, callbacks, promise, writes, wakes>>

CellInit ==
  /\ value \in Values
  /\ callbacks = {}
  /\ gpc = [s \in Subs |-> "start"]
  /\ promise = [s \in Subs |-> "none"]
  /\ held = [s \in Subs |-> NoVal]
  /\ writes = <<value>>
  /\ recv = [s \in Subs |-> <<>>]
  /\ wakes = [s \in Subs |-> 0]

CellNext ==
  \/ \E v \in Values : SetValue(v) /\ UNCHANGED <<tableVars, chainVars, regVars, svcVars>>
  \/ \E s \in Subs : Pull(s) /\ UNCHANGED <<tableVars, chainVars, regVars, svcVars>>
  \/ \E s \in Subs : Resume(s) /\ UNCHANGED <<tableVars, chainVars, regVars, svcVars>>
  \/ \E s \in Subs : Deliver(s) /\ UNCHANGED <<tableVars, chainVars, regVars, svcVars>>

\* The consumer calls return() on a generator that has no next() pending, as
\* leaving a for-await loop does: the generator completes where it is
\* suspended.  The body of generate() has no finally: nothing else runs.
Stop(s) ==
  /\ gpc[s] \in {"start", "yield"}
  /\ gpc' = [gpc EXCEPT ![s] = "done"]
  /\ UNCHANGED <<value, callbacks, promise, held, writes, recv, wakes>>

\* next() on a completed generator resolves to {done: true, value: undefined}.
PullDone(s) ==
  /\ Len(recv[s]) < MaxPulls
  /\ gpc[s] = "done"
  /\ recv' = [recv EXCEPT ![s] = Append(@, [val |-> "done", start |-> Len(writes),
                                              done |-> Len(writes)])]
  /\ UNCHANGED <<value, callbacks, gpc, promise, held, writes, wakes>>

\* The cell with consumers that may stop their generators.
CellStopNext ==
  \/ \E v \in Values : SetValue(v) /\ UNCHANGED <<tableVars, chainVars, regVars, svcVars>>
  \/ \E s \in Subs : Pull(s) /\ UNCHANGED <<tableVars, chainVars, regVars, svcVars>>
  \/ \E s \in Subs : Resume(s) /\ UNCHANGED <<tableVars, chainVars, regVars, svcVars>>
  \/ \E s \in Subs : Deliver(s) /\ UNCHANGED <<tableVars, chainVars, regVars, svcVars>>
  \/ \E s \in Subs : Stop(s) /\ UNCHANGED <<tableVars, chainVars, regVars, svcVars>>
  \/ \E s \in Subs : PullDone(s) /\ UNCHANGED <<tableVars, chainVars, regVars, svcVars>>

\* ------------------------------------------ MapGeneratorListener (table)

Keys == {"k1", "k2"}
Undefined == "undefined"
Truthy == {"x", "y"}              \* values for which `if (val)` holds
Falsy == {Undefined, "0"}         \* undefined and a falsy value that is not undefined
TableValues == Truthy \cup Falsy

\* The generators: generateKeys(), generateMap(), generate("k1").
TGens == {"gkeys", "gmap", "gk1"}
GenKey(g) == "k1"

\* self.map[key]: undefined when the key is absent
Lookup(m, key) == IF key \in DOMAIN m THEN m[key] ELSE Undefined

\* pushKeyUpdate(): callbacks.forEach(c => c()); callbacks.clear()
pushKeyUpdate(st) ==
  [st EXCEPT !.callbacks = {},
             !.woken = @ \cup st.callbacks]

\* pushUpdate(key) that leaves map_callbacks alone.
pushUpdateKeyOnly(st, key) ==
  LET kc == IF key \in DOMAIN st.key_callbacks THEN st.key_callbacks[key] ELSE {}
  IN [st EXCEPT !.key_callbacks = [k \in DOMAIN st.key_callbacks \ {key} |-> st.key_callbacks[k]],
                !.woken = @ \cup kc]

\* pushUpdate(key): run and drop key_callbacks[key] if there is one, then
\* run and clear map_callbacks.
pushUpdateKey(st, key) ==
  LET kc == IF key \in DOMAIN st.key_callbacks THEN st.key_callbacks[key] ELSE {}
  IN [st EXCEPT !.key_callbacks = [k \in DOMAIN st.key_callbacks \ {key} |-> st.key_callbacks[k]],
                !.map_callbacks = {},
                !.woken = @ \cup kc \cup st.map_callbacks]

\* `if (val !== undefined)` in place of `if (val)`.
StoresDefined(val) == val # Undefined

\* The truthiness test of setKey: `if (val)`.
StoresValue(val) == val \in Truthy

\* setKey without the `val !== prev` guard: every write notifies.
setKeyUnconditional(st, key, val) ==
  LET prev == Lookup(st.map, key)
      st1 == [st EXCEPT !.map =
                IF StoresValue(val)
                  THEN [k \in DOMAIN st.map \cup {key} |-> IF k = key THEN val ELSE st.map[k]]
                  ELSE [k \in DOMAIN st.map \ {key} |-> st.map[k]]]
      st2 == IF (IF val \in Truthy THEN prev \notin Truthy ELSE prev \in Truthy)
               THEN pushKeyUpdate(st1)
               ELSE st1
  IN pushUpdateKey(st2, key)

\* setKey calling pushKeyUpdate on every changing write.
setKeyAlwaysKeys(st, key, val) ==
  LET prev == Lookup(st.map, key)
      st1 == [st EXCEPT !.map =
                IF StoresValue(val)
                  THEN [k \in DOMAIN st.map \cup {key} |-> IF k = key THEN val ELSE st.map[k]]
                  ELSE [k \in DOMAIN st.map \ {key} |-> st.map[k]]]
  IN IF val # prev THEN pushUpdateKey(pushKeyUpdate(st1), key) ELSE st1

\* setKey(key, val) of the proxy returned by `get value()`.
setKey(st, key, val) ==
  LET prev == Lookup(st.map, key)
      st1 == [st EXCEPT !.map =
                IF StoresValue(val)
                  THEN [k \in DOMAIN st.map \cup {key} |-> IF k = key THEN val ELSE st.map[k]]
                  ELSE [k \in DOMAIN st.map \ {key} |-> st.map[k]]]
      st2 == IF (IF val \in Truthy THEN prev \notin Truthy ELSE prev \in Truthy)
               THEN pushKeyUpdate(st1)
               ELSE st1
  IN IF val # prev THEN pushUpdateKey(st2, key) ELSE st1

\* A write through the proxy: the set trap (table.value[key] = val) or the
\* deleteProperty trap (delete table.value[key], i.e. val = undefined).
TableWrite(key, val) ==
  /\ nwrites < MaxTableWrites
  /\ LET st == setKey([map |-> map, callbacks |-> tcallbacks,
                       key_callbacks |-> key_callbacks,
                       map_callbacks |-> map_callbacks, woken |-> {}], key, val)
     IN /\ map' = st.map
        /\ tcallbacks' = st.callbacks
        /\ key_callbacks' = st.key_callbacks
        /\ map_callbacks' = st.map_callbacks
        /\ tpromise' = [g \in TGens |-> IF g \in st.woken THEN "resolved" ELSE tpromise[g]]
  /\ nwrites' = nwrites + 1
  /\ lastWrite' = [key |-> key, val |-> val, prev |-> Lookup(map, key),
                   waiters |-> tcallbacks \cup map_callbacks \cup
                     (IF key \in DOMAIN key_callbacks THEN key_callbacks[key] ELSE {})]
  /\ lastVal' = [lastVal EXCEPT ![key] = val]
  /\ UNCHANGED <<tgpc, theld, tpulls, tlast>>

\* One loop turn of generateKeys / generateMap / generate(k) up to its yield.
\* generateMap yields `this.value`, a proxy over the live map.
TGenLoop(g) ==
  /\ tpromise' = [tpromise EXCEPT ![g] = "pending"]
  /\ tgpc' = [tgpc EXCEPT ![g] = "yielding"]
  /\ \/ /\ g = "gkeys"
        /\ tcallbacks' = tcallbacks \cup {g}
        /\ theld' = [theld EXCEPT ![g] = DOMAIN map]
        /\ UNCHANGED <<key_callbacks, map_callbacks>>
     \/ /\ g = "gmap"
        /\ map_callbacks' = map_callbacks \cup {g}
        /\ theld' = [theld EXCEPT ![g] = "proxy"]
        /\ UNCHANGED <<tcallbacks, key_callbacks>>
     \/ /\ g = "gk1"
        /\ key_callbacks' =
             [k \in DOMAIN key_callbacks \cup {GenKey(g)} |->
                (IF k \in DOMAIN key_callbacks THEN key_callbacks[k] ELSE {})
                  \cup (IF k = GenKey(g) THEN {g} ELSE {})]
        /\ theld' = [theld EXCEPT ![g] = Lookup(map, GenKey(g))]
        /\ UNCHANGED <<tcallbacks, map_callbacks>>

\* next() on a table generator.
TPull(g) ==
  /\ tpulls[g] < MaxTablePulls
  /\ \/ /\ tgpc[g] = "start"
        /\ TGenLoop(g)
     \/ /\ tgpc[g] = "yield"
        /\ tgpc' = [tgpc EXCEPT ![g] = "await"]
        /\ UNCHANGED <<tpromise, theld, tcallbacks, key_callbacks, map_callbacks>>
  /\ tpulls' = [tpulls EXCEPT ![g] = @ + 1]
  /\ UNCHANGED <<map, nwrites, lastWrite, lastVal, tlast>>

\* `await promise` continues once the promise is resolved.
TResume(g) ==
  /\ tgpc[g] = "await"
  /\ tpromise[g] = "resolved"
  /\ TGenLoop(g)
  /\ UNCHANGED <<map, nwrites, lastWrite, lastVal, tpulls, tlast>>

\* The yield settles the pending next(); the consumer of generateMap reads
\* the proxy it was handed, which shows the map as it is then.
TDeliver(g) ==
  /\ tgpc[g] = "yielding"
  /\ tgpc' = [tgpc EXCEPT ![g] = "yield"]
  /\ tlast' = [tlast EXCEPT ![g] = IF g = "gmap" THEN map ELSE theld[g]]
  /\ UNCHANGED <<map, tcallbacks, key_callbacks, map_callbacks, tpromise, theld,
                 nwrites, lastWrite, lastVal, tpulls>>

TableInit ==
  /\ map = [k \in {} |-> Undefined]
  /\ tcallbacks = {}
  /\ key_callbacks = [k \in {} |-> {}]
  /\ map_callbacks = {}
  /\ tgpc = [g \in TGens |-> "start"]
  /\ tpromise = [g \in TGens |-> "none"]
  /\ theld = [g \in TGens |-> Undefined]
  /\ nwrites = 0
  /\ lastWrite = [key |-> "none", val |-> Undefined, prev |-> Undefined, waiters |-> {}]
  /\ lastVal = [k \in Keys |-> "never"]
  /\ tpulls = [g \in TGens |-> 0]
  /\ tlast = [g \in TGens |-> "nothing"]

TableNext ==
  \/ \E k \in Keys, v \in TableValues : TableWrite(k, v) /\ UNCHANGED <<cellVars, chainVars, regVars, svcVars>>
  \/ \E g \in TGens : TPull(g) /\ UNCHANGED <<cellVars, chainVars, regVars, svcVars>>
  \/ \E g \in TGens : TResume(g) /\ UNCHANGED <<cellVars, chainVars, regVars, svcVars>>
  \/ \E g \in TGens : TDeliver(g) /\ UNCHANGED <<cellVars, chainVars, regVars, svcVars>>

\* ------------------------------- createValuePusher, chainGen, chainMapGen
\*
\* chainMapGen(outer, mapT) = chainGen(mapGen(outer, mapT, undefined)), as
\* the services use it: outer is the stream of a source that holds either
\* nothing ("none") or an instance (a source id), and mapT maps an instance
\* to the stream of that instance's cell and nothing to yieldSingle(v).

Sources == {"A", "B"}
OuterValues == Sources \cup {"none"}
InnerValues == {"p", "q"}
Placeholder == "placeholder"
MaxGens == MaxOuterSets + 1
GenIds == 1..MaxGens

\* fresh: startChaining's loop has not yet taken a value of the generator.
NoGen == [src |-> "none", pc |-> "none", promise |-> "none", held |-> Undefined,
          returns |-> FALSE, tpc |-> "none", tval |-> Undefined, fresh |-> TRUE]

\* return() called on an inner generator: one suspended at its yield with no
\* next() pending completes; one that is answering a next() queues the
\* request behind it.
ReturnCall(g) ==
  IF g.pc = "yield" THEN [g EXCEPT !.pc = "done"]
  ELSE IF g.pc \in {"yielding", "await"} THEN [g EXCEPT !.returns = TRUE]
  ELSE g

\* The setter of the outer source without its pushUpdate().
OuterSetSilent(v) ==
  /\ nosets < MaxOuterSets
  /\ nosets' = nosets + 1
  /\ ocell' = v
  /\ UNCHANGED <<ocallbacks, opromise>>
  /\ UNCHANGED <<opc, oheld, nextgen, pub_gen, ngens, igen, icell, icallbacks,
                 outbound_value_queue, isdone, cpc, out, crecv, nisets, npulls>>

\* The setter of the outer source (a cell, or one key of a table: both wake
\* the waiters when the new value !== the old one).
OuterSet(v) ==
  /\ nosets < MaxOuterSets
  /\ nosets' = nosets + 1
  /\ ocell' = v
  /\ IF ocell # v
       THEN /\ ocallbacks' = {}
            /\ opromise' = IF "outer" \in ocallbacks THEN "resolved" ELSE opromise
       ELSE UNCHANGED <<ocallbacks, opromise>>
  /\ UNCHANGED <<opc, oheld, nextgen, pub_gen, ngens, igen, icell, icallbacks,
                 outbound_value_queue, isdone, cpc, out, crecv, nisets, npulls>>

\* The outer generator continues after `await promise`: next loop turn.
OuterResume ==
  /\ opc = "await"
  /\ opromise = "resolved"
  /\ opromise' = "pending"
  /\ ocallbacks' = ocallbacks \cup {"outer"}
  /\ oheld' = ocell
  /\ opc' = "yielding"
  /\ UNCHANGED <<ocell, nextgen, pub_gen, ngens, igen, icell, icallbacks,
                 outbound_value_queue, isdone, cpc, out, crecv, nosets, nisets, npulls>>

\* The outer generator's yield settles the next() mapGen awaits; mapGen
\* yields mapT(value), a new generator that has not started.
OuterDeliver ==
  /\ opc = "yielding"
  /\ opc' = "yield"
  /\ ngens' = ngens + 1
  /\ igen' = [igen EXCEPT ![ngens + 1] = [NoGen EXCEPT !.src = oheld, !.pc = "start"]]
  /\ nextgen' = ngens + 1
  /\ UNCHANGED <<ocell, ocallbacks, opromise, oheld, pub_gen, icell, icallbacks,
                 outbound_value_queue, isdone, cpc, out, crecv, nosets, nisets, npulls>>

\* The body of chainGen's `for await (const nextgen of genin)`:
\*   if (pub_gen) pub_gen.return(undefined); pub_gen = nextgen; startChaining()
\* startChaining calls next() on the new generator, which runs to its first
\* yield; then the for-await loop calls genin.next(), and the outer
\* generator runs on to its `await promise`.
\* The first value of the generator started by the previous turn has been
\* taken by then: its yield and the loop of startChaining are two promise
\* continuations after that turn, the next value of genin at least five
\* (outer await, outer yield, mapGen's await, mapGen's yield, for-await),
\* and continuations run in the order they were queued.
Switch ==
  /\ nextgen # 0
  /\ pub_gen # 0 => ~igen[pub_gen].fresh
  /\ LET new == nextgen
         src == igen[new].src
         stopped == [i \in GenIds |-> IF i = pub_gen THEN ReturnCall(igen[i]) ELSE igen[i]]
     IN /\ igen' = [stopped EXCEPT ![new] =
                      [@ EXCEPT !.pc = "yielding",
                                !.promise = IF src = "none" THEN "none" ELSE "pending",
                                !.held = IF src = "none" THEN Placeholder ELSE icell[src],
                                !.tpc = "wait"]]
        /\ icallbacks' = [s \in Sources |-> IF s = src THEN icallbacks[s] \cup {new}
                                            ELSE icallbacks[s]]
        /\ pub_gen' = new
  /\ nextgen' = 0
  /\ opc' = "await"
  /\ UNCHANGED <<ocell, ocallbacks, opromise, oheld, ngens, icell,
                 outbound_value_queue, isdone, cpc, out, crecv, nosets, nisets, npulls>>

\* The setter of an inner source's cell.
InnerSet(s, v) ==
  /\ nisets < MaxInnerSets
  /\ nisets' = nisets + 1
  /\ icell' = [icell EXCEPT ![s] = v]
  /\ IF icell[s] # v
       THEN LET pu == pushUpdate(icallbacks[s], [i \in GenIds |-> igen[i].promise])
            IN /\ icallbacks' = [icallbacks EXCEPT ![s] = pu.callbacks]
               /\ igen' = [i \in GenIds |-> [igen[i] EXCEPT !.promise = pu.promise[i]]]
       ELSE UNCHANGED <<icallbacks, igen>>
  /\ UNCHANGED <<ocell, ocallbacks, opc, opromise, oheld, nextgen, pub_gen, ngens,
                 outbound_value_queue, isdone, cpc, out, crecv, nosets, npulls>>

\* An inner generator continues after `await promise`: next loop turn.
InnerResume(i) ==
  /\ igen[i].pc = "await"
  /\ igen[i].promise = "resolved"
  /\ igen' = [igen EXCEPT ![i] = [@ EXCEPT !.pc = "yielding", !.promise = "pending",
                                            !.held = icell[igen[i].src]]]
  /\ icallbacks' = [icallbacks EXCEPT ![igen[i].src] = @ \cup {i}]
  /\ UNCHANGED <<ocell, ocallbacks, opc, opromise, oheld, nextgen, pub_gen, ngens, icell,
                 outbound_value_queue, isdone, cpc, out, crecv, nosets, nisets, npulls>>

\* An inner generator's yield settles the next() its startChaining loop
\* awaits; a return() queued behind that next() then completes the generator.
InnerDeliver(i) ==
  /\ igen[i].pc = "yielding"
  /\ igen' = [igen EXCEPT ![i] = [@ EXCEPT !.pc = IF igen[i].returns THEN "done" ELSE "yield",
                                            !.tpc = "got",
                                            !.tval = igen[i].held]]
  /\ UNCHANGED <<ocell, ocallbacks, opc, opromise, oheld, nextgen, pub_gen, ngens, icell,
                 icallbacks, outbound_value_queue, isdone, cpc, out, crecv, nosets,
                 nisets, npulls>>

\* next() of an inner generator suspended at its yield: generate() goes on to
\* `await promise`, yieldSingle to a promise that never resolves.
NextCall(g) ==
  IF g.pc = "yield"
    THEN [g EXCEPT !.pc = "await",
                   !.promise = IF g.src = "none" THEN "never" ELSE g.promise,
                   !.tpc = "wait",
                   !.fresh = FALSE]
    ELSE [g EXCEPT !.tpc = "done"]

\* startChaining's loop body without its test of gen against pub_gen.
ForwardNoCheck(i) ==
  /\ igen[i].tpc = "got"
  /\ outbound_value_queue' = Append(outbound_value_queue,
         [gen |-> i, src |-> igen[i].src, val |-> igen[i].tval])
  /\ out' = Append(out, [gen |-> i, src |-> igen[i].src, val |-> igen[i].tval])
  /\ cpc' = IF cpc = "waiting" THEN "ready" ELSE cpc
  /\ igen' = [igen EXCEPT ![i] = NextCall(@)]
  /\ UNCHANGED <<ocell, ocallbacks, opc, opromise, oheld, nextgen, pub_gen, ngens, icell,
                 icallbacks, isdone, crecv, nosets, nisets, npulls>>

\* The body of startChaining's `for await (const val of gen)`:
\*   if (gen !== pub_gen) break; genout.yield(val)
\* break calls gen.return(); genout.yield pushes {value, done: false} and
\* calls _push, which resolves the promise a waiting next() awaits; then the
\* loop calls gen.next().
Forward(i) ==
  /\ igen[i].tpc = "got"
  /\ IF i # pub_gen
       THEN /\ igen' = [igen EXCEPT ![i] = [ReturnCall(@) EXCEPT !.tpc = "done"]]
            /\ UNCHANGED <<outbound_value_queue, out, cpc>>
       ELSE /\ outbound_value_queue' = Append(outbound_value_queue,
                   [gen |-> i, src |-> igen[i].src, val |-> igen[i].tval])
            /\ out' = Append(out, [gen |-> i, src |-> igen[i].src, val |-> igen[i].tval])
            /\ cpc' = IF cpc = "waiting" THEN "ready" ELSE cpc
            /\ igen' = [igen EXCEPT ![i] = NextCall(@)]
  /\ UNCHANGED <<ocell, ocallbacks, opc, opromise, oheld, nextgen, pub_gen, ngens, icell,
                 icallbacks, isdone, crecv, nosets, nisets, npulls>>

Received(e) == [gen |-> e.gen, src |-> e.src, val |-> e.val, at |-> pub_gen]
DoneResult == [gen |-> 0, src |-> "none", val |-> "done", at |-> pub_gen]

\* One turn of the loop of the pusher's next():
\*   if (queue.length) return queue.shift()
\*   else if (isdone) return {done: true, value: undefined}
\*   await promise
PusherNext ==
  IF outbound_value_queue # <<>>
    THEN /\ crecv' = Append(crecv, Received(Head(outbound_value_queue)))
         /\ outbound_value_queue' = Tail(outbound_value_queue)
         /\ cpc' = "idle"
    ELSE IF isdone
      THEN /\ crecv' = Append(crecv, DoneResult)
           /\ cpc' = "idle"
           /\ UNCHANGED outbound_value_queue
      ELSE /\ cpc' = "waiting"
           /\ UNCHANGED <<crecv, outbound_value_queue>>

\* The consumer calls next() on the chained stream.
ChainPull ==
  /\ cpc = "idle"
  /\ npulls < MaxChainPulls
  /\ npulls' = npulls + 1
  /\ PusherNext
  /\ UNCHANGED <<ocell, ocallbacks, opc, opromise, oheld, nextgen, pub_gen, ngens, igen,
                 icell, icallbacks, isdone, out, nosets, nisets>>

\* The consumer's next() continues after `await promise`.
ChainWake ==
  /\ cpc = "ready"
  /\ PusherNext
  /\ UNCHANGED <<ocell, ocallbacks, opc, opromise, oheld, nextgen, pub_gen, ngens, igen,
                 icell, icallbacks, isdone, out, nosets, nisets, npulls>>

\* The state when chainMapGen(...) has returned: chainGen's loop has called
\* next() on mapGen, which has called next() on the outer generator, which
\* registered its callback, read the outer value and is at its first yield.
\* The outer source holds nothing or instance A; every instance's cell
\* holds the value it is constructed with.
ChainInit ==
  /\ ocell \in {"none", "A"}
  /\ ocallbacks = {"outer"}
  /\ opc = "yielding"
  /\ opromise = "pending"
  /\ oheld = ocell
  /\ nextgen = 0
  /\ pub_gen = 0
  /\ ngens = 0
  /\ igen = [i \in GenIds |-> NoGen]
  /\ icell = [s \in Sources |-> "p"]
  /\ icallbacks = [s \in Sources |-> {}]
  /\ outbound_value_queue = <<>>
  /\ isdone = FALSE
  /\ cpc = "idle"
  /\ out = <<>>
  /\ crecv = <<>>
  /\ nosets = 0
  /\ nisets = 0
  /\ npulls = 0

ChainNext ==
  \/ \E v \in OuterValues : OuterSet(v) /\ UNCHANGED <<cellVars, tableVars, regVars, svcVars>>
  \/ OuterResume /\ UNCHANGED <<cellVars, tableVars, regVars, svcVars>>
  \/ OuterDeliver /\ UNCHANGED <<cellVars, tableVars, regVars, svcVars>>
  \/ Switch /\ UNCHANGED <<cellVars, tableVars, regVars, svcVars>>
  \/ \E s \in Sources, v \in InnerValues : InnerSet(s, v) /\ UNCHANGED <<cellVars, tableVars, regVars, svcVars>>
  \/ \E i \in GenIds : InnerResume(i) /\ UNCHANGED <<cellVars, tableVars, regVars, svcVars>>
  \/ \E i \in GenIds : InnerDeliver(i) /\ UNCHANGED <<cellVars, tableVars, regVars, svcVars>>
  \/ \E i \in GenIds : Forward(i) /\ UNCHANGED <<cellVars, tableVars, regVars, svcVars>>
  \/ ChainPull /\ UNCHANGED <<cellVars, tableVars, regVars, svcVars>>
  \/ ChainWake /\ UNCHANGED <<cellVars, tableVars, regVars, svcVars>>

\* The consumer calls return() on the chained stream:
\*   async return(val) { isdone = true; return { done: true, value: val } }
\* The result records how many values had been pushed when it was called.
\* The consumer calls it between its next() calls, as leaving a for-await
\* loop does, and once: a second call changes nothing.
ReturnResult == [gen |-> 0, src |-> "none", val |-> "returned", at |-> pub_gen,
                 nout |-> Len(out)]

ChainReturn ==
  /\ ~isdone
  /\ cpc = "idle"
  /\ isdone' = TRUE
  /\ crecv' = Append(crecv, ReturnResult)
  /\ UNCHANGED <<ocell, ocallbacks, opc, opromise, oheld, nextgen, pub_gen, ngens, igen,
                 icell, icallbacks, outbound_value_queue, cpc, out, nosets, nisets, npulls>>

\* The chained stream with a consumer that stops it, in the runs where the
\* writers of the sources act after the stop, MaxStopWrites times in all.
AfterStop == isdone /\ nosets + nisets < MaxStopWrites

ChainStopNext ==
  \/ \E v \in OuterValues :
        AfterStop /\ OuterSet(v) /\ UNCHANGED <<cellVars, tableVars, regVars, svcVars>>
  \/ OuterResume /\ UNCHANGED <<cellVars, tableVars, regVars, svcVars>>
  \/ OuterDeliver /\ UNCHANGED <<cellVars, tableVars, regVars, svcVars>>
  \/ Switch /\ UNCHANGED <<cellVars, tableVars, regVars, svcVars>>
  \/ \E s \in Sources, v \in InnerValues :
        AfterStop /\ InnerSet(s, v) /\ UNCHANGED <<cellVars, tableVars, regVars, svcVars>>
  \/ \E i \in GenIds : InnerResume(i) /\ UNCHANGED <<cellVars, tableVars, regVars, svcVars>>
  \/ \E i \in GenIds : InnerDeliver(i) /\ UNCHANGED <<cellVars, tableVars, regVars, svcVars>>
  \/ \E i \in GenIds : Forward(i) /\ UNCHANGED <<cellVars, tableVars, regVars, svcVars>>
  \/ ChainPull /\ UNCHANGED <<cellVars, tableVars, regVars, svcVars>>
  \/ ChainWake /\ UNCHANGED <<cellVars, tableVars, regVars, svcVars>>
  \/ ChainReturn /\ UNCHANGED <<cellVars, tableVars, regVars, svcVars>>

\* ------------------------------------------------- MainWorker (registry)
\*
\* Service descriptors are objects {id, service, versions}.  acc, mx and
\* apps stand for the services the constructor of MainWorker registers
\* (accounts, mxbindings whose constructor asks for accounts [0, 1] and for
\* apps [0, 1], and apps); ext, cli and dup are descriptors a caller brings:
\* ext lists three versions of major 1, cli's constructor asks for
\* ext [1, 2], dup has the id of acc.

Descs == {"acc", "mx", "apps", "ext", "cli", "dup"}

IdOf(d) ==
  CASE d = "acc" -> <<"net", "kb1rd", "accounts">>
    [] d = "mx"  -> <<"net", "kb1rd", "mxbindings">>
    [] d = "apps" -> <<"net", "kb1rd", "apps">>
    [] d = "ext" -> <<"ext">>
    [] d = "cli" -> <<"ext", "cli">>
    [] d = "dup" -> <<"net", "kb1rd", "accounts">>

\* descriptor.service: the constructor
ServiceOf(d) ==
  CASE d = "acc" -> "AccountsService"
    [] d = "mx"  -> "MatrixService"
    [] d = "apps" -> "AppsService"
    [] d = "ext" -> "ExtService"
    [] d = "cli" -> "CliService"
    [] d = "dup" -> "DupService"

Constructors == {ServiceOf(d) : d \in Descs}

\* descriptor.versions, in declared order
VersionsOf(d) ==
  CASE d = "acc" -> << <<0, 1, 0>> >>
    [] d = "mx"  -> << <<0, 3, 0>> >>
    [] d = "apps" -> << <<0, 2, 0>> >>
    [] d = "ext" -> << <<1, 1, 0>>, <<1, 3, 0>>, <<1, 2, 5>> >>
    [] d = "cli" -> << <<0, 2, 0>>, <<1, 2, 0>> >>
    [] d = "dup" -> << <<2, 0, 0>> >>

\* The getServiceDependency calls the constructor makes, in order.
DepsOf(d) ==
  CASE d = "mx"  -> << [id |-> <<"net", "kb1rd", "accounts">>, req |-> <<0, 1>>],
                       [id |-> <<"net", "kb1rd", "apps">>, req |-> <<0, 1>>] >>
    [] d = "cli" -> << [id |-> <<"ext">>, req |-> <<1, 2>>] >>
    [] OTHER     -> << >>

\* The ids and the minimum versions [major, minor] callers ask for.
Ids == {IdOf(d) : d \in Descs} \cup {<<"net", "kb1rd">>}
Reqs == {<<0, 1>>, <<1, 2>>}
\* The same versions asked for with a patch component (a full semver).
FullReqs == {<<0, 1, 0>>, <<1, 2, 9>>}

\* a.length === b.length && a.every((p, i) => b[i] === p)
addrsEqual(a, b) == Len(a) = Len(b) /\ \A i \in 1..Len(a) : b[i] = a[i]

\* The worker's registry state as one value, and the results of its methods.
RegState == [services |-> services, active |-> services_active,
             instances |-> service_instaces, nconstructed |-> nconstructed,
             nregisterAll |-> nregisterAll]

Returned(st, v) == [st |-> st, kind |-> "return", value |-> v, error |-> "none"]
Thrown(st, e) == [st |-> st, kind |-> "throw", value |-> <<>>, error |-> e]
NoVersion == <<>>    \* undefined

\* used_major when the loop of registerService looks at versions[k]: the
\* set is created empty and the loop has no used_major.add.
used_major(versions, k) == {}

\* registerService without its comparison of ids.
registerServiceAnyId(st, d) ==
  Returned([st EXCEPT !.services = Append(@, d)], <<>>)

\* registerService(service)
registerService(st, d) ==
  IF \E i \in 1..Len(st.services) : addrsEqual(IdOf(st.services[i]), IdOf(d))
    THEN Thrown(st, "already registered")
  ELSE IF \E k \in 1..Len(VersionsOf(d)) :
            VersionsOf(d)[k][1] \in used_major(VersionsOf(d), k)
    THEN Thrown(st, "duplicate major versions")
  ELSE Returned([st EXCEPT !.services = Append(@, d)], <<>>)

\* The comparison that takes a third component of the request as the patch
\* the version must have.
ApplicablePatch(v, req) ==
  v[1] = req[1] /\ v[2] >= req[2] /\ (Len(req) = 3 => v[3] = req[3])

\* v.version[0] === req[0] && v.version[1] >= req[1]
Applicable(v, req) == v[1] = req[1] /\ v[2] >= req[2]

\* The index `version` holds after the loop over service.versions, which
\* assigns on every applicable entry (0: undefined).
RECURSIVE ScanVersions(_, _, _, _)
ScanVersions(versions, req, k, found) ==
  IF k > Len(versions) THEN found
  ELSE ScanVersions(versions, req, k + 1,
                    IF Applicable(versions[k], req) THEN k ELSE found)

\* The scan keeping the first applicable entry.
FirstApplicable(d, req) ==
  IF \E k \in 1..Len(VersionsOf(d)) : Applicable(VersionsOf(d)[k], req)
    THEN CHOOSE k \in 1..Len(VersionsOf(d)) :
           /\ Applicable(VersionsOf(d)[k], req)
           /\ \A j \in 1..(k - 1) : ~Applicable(VersionsOf(d)[j], req)
    ELSE 0

SelectVersion(d, req) == ScanVersions(VersionsOf(d), req, 1, 0)

\* getService(id): the last registered descriptor with that id ("none":
\* undefined)
getService(st, id) ==
  LET hits == {i \in 1..Len(st.services) : addrsEqual(id, IdOf(st.services[i]))}
  IN IF hits = {} THEN "none"
     ELSE st.services[CHOOSE i \in hits : \A j \in hits : j <= i]

\* A constructor that makes none of its getServiceDependency calls.
ConstructNoDeps(st, d, k) == Returned(st, <<>>)

RECURSIVE setupServiceVersion(_, _, _)
RECURSIVE getServiceDependency(_, _, _)
RECURSIVE Construct(_, _, _)

\* The constructor of d's service from its k-th getServiceDependency call
\* on: an exception of a call leaves the constructor.
Construct(st, d, k) ==
  IF k > Len(DepsOf(d)) THEN Returned(st, <<>>)
  ELSE LET dep == getServiceDependency(st, DepsOf(d)[k].id, DepsOf(d)[k].req)
       IN IF dep.kind = "throw" THEN dep
          ELSE Construct(dep.st, d, k + 1)

\* The constructor that is run although the map has an instance already.
HasInstanceNever(st, d) == FALSE

\* The keys of a Map kept as the sequence of its keys in insertion order.
MapKeys(m) == {m[i] : i \in 1..Len(m)}

\* this.service_instaces.has(service.service)
HasInstance(st, d) == ServiceOf(d) \in MapKeys(st.instances)

\* setupServiceVersion(service, req)
setupServiceVersion(st, d, req) ==
  LET reg == IF \E i \in 1..Len(st.services) : st.services[i] = d
               THEN Returned(st, <<>>)
               ELSE registerService(st, d)
      k == SelectVersion(d, req)
  IN IF reg.kind = "throw" THEN reg
     ELSE IF k = 0 THEN Returned(reg.st, NoVersion)
     ELSE IF <<d, k>> \in reg.st.active THEN Returned(reg.st, VersionsOf(d)[k])
     ELSE LET made == IF HasInstance(reg.st, d) THEN Returned(reg.st, <<>>)
                      ELSE Construct(reg.st, d, 1)
              st2 == IF HasInstance(reg.st, d) THEN made.st
                     ELSE [made.st EXCEPT
                             !.instances = Append(@, ServiceOf(d)),
                             !.nconstructed[ServiceOf(d)] = @ + 1,
                             !.nregisterAll[ServiceOf(d)] = @ + 1]
          IN IF made.kind = "throw" THEN made
             ELSE Returned([st2 EXCEPT !.active = @ \cup {<<d, k>>}], VersionsOf(d)[k])

\* getServiceDependency answering with the instance whatever
\* setupServiceVersion returned.
getServiceDependencyAnyVersion(st, id, req) ==
  LET service == getService(st, id)
  IN IF service = "none" THEN Thrown(st, "requested, but not found")
     ELSE LET set == setupServiceVersion(st, service, req)
          IN IF set.kind = "throw" THEN set
             ELSE IF ServiceOf(service) \notin MapKeys(set.st.instances)
               THEN Thrown(set.st, "set up, but not found")
             ELSE Returned(set.st, ServiceOf(service))

\* getServiceDependency(id, req): returns the instance, named by its
\* constructor.
getServiceDependency(st, id, req) ==
  LET service == getService(st, id)
  IN IF service = "none" THEN Thrown(st, "requested, but not found")
     ELSE LET set == setupServiceVersion(st, service, req)
          IN IF set.kind = "throw" THEN set
             ELSE IF set.value = NoVersion
               THEN Thrown(set.st, "version not found")
             ELSE IF ServiceOf(service) \notin MapKeys(set.st.instances)
               THEN Thrown(set.st, "set up, but not found")
             ELSE Returned(set.st, ServiceOf(service))

\* requestServices: the loop `versions.some((ver) => { version =
\* this.setupServiceVersion(service, ver) })` from the k-th acceptable
\* version on.  The callback returns nothing, so some() goes through every
\* version, and `version` is what the last call returned.
RECURSIVE TryVersions(_, _, _, _, _)
TryVersions(st, service, versions, k, version) ==
  IF k > Len(versions) THEN Returned(st, version)
  ELSE LET set == setupServiceVersion(st, service, versions[k])
       IN IF set.kind = "throw" THEN set
          ELSE TryVersions(set.st, service, versions, k + 1, set.value)

\* requestServices(...requests) from the k-th request on; responses are the
\* {id, version} of the requests before it.
RECURSIVE requestServices(_, _, _, _)
requestServices(st, requests, k, responses) ==
  IF k > Len(requests) THEN Returned(st, responses)
  ELSE LET service == getService(st, requests[k].id)
       IN IF service = "none" THEN Thrown(st, "not registered")
          ELSE LET tried == TryVersions(st, service, requests[k].versions, 1, NoVersion)
               IN IF tried.kind = "throw" THEN tried
                  ELSE IF tried.value = NoVersion
                    THEN Thrown(tried.st, "unable to find suitable version")
                  ELSE requestServices(tried.st, requests, k + 1,
                         Append(responses, [id |-> requests[k].id,
                                            version |-> tried.value]))

\* The requests a client sends: one request with up to MaxAcceptable
\* acceptable versions, or two requests with one acceptable version each.
BatchIds == {IdOf("ext"), IdOf("cli"), <<"net", "kb1rd">>}
VersionLists == UNION {[1..n -> Reqs] : n \in 1..MaxAcceptable}
Requests == {[id |-> i, versions |-> vs] : i \in BatchIds, vs \in VersionLists}
Batches == {<<r>> : r \in Requests}
             \cup {<<r1, r2>> : r1, r2 \in {r \in Requests : Len(r.versions) = 1}}

\* A call made on the worker: the state the method leaves and the outcome.
Call(op, arg, req, res) ==
  LET r == res
  IN /\ services' = r.st.services
     /\ services_active' = r.st.active
     /\ service_instaces' = r.st.instances
     /\ nconstructed' = r.st.nconstructed
     /\ nregisterAll' = r.st.nregisterAll
     /\ rlast' = [op |-> op, arg |-> arg, req |-> req, kind |-> r.kind,
                  value |-> r.value, error |-> r.error]

Register(d) == Call("registerService", d, <<>>, registerService(RegState, d))

Activate(d, req) ==
  Call("setupServiceVersion", d, req, setupServiceVersion(RegState, d, req))

GetDependency(id, req) ==
  Call("getServiceDependency", id, req, getServiceDependency(RegState, id, req))

RequestBatch(requests) ==
  Call("requestServices", requests, <<>>, requestServices(RegState, requests, 1, <<>>))

\* The worker as its constructor leaves it: the built-in services are
\* registered, none is set up.
RegInit ==
  /\ services = <<"acc", "mx", "apps">>
  /\ services_active = {}
  /\ service_instaces = <<>>
  /\ nconstructed = [c \in Constructors |-> 0]
  /\ nregisterAll = [c \in Constructors |-> 0]
  /\ rlast = [op |-> "constructor", arg |-> <<>>, req |-> <<>>, kind |-> "return",
              value |-> <<>>, error |-> "none"]

RegNext ==
  \/ \E d \in Descs : Register(d) /\ UNCHANGED <<cellVars, tableVars, chainVars, svcVars>>
  \/ \E d \in Descs, req \in Reqs \cup FullReqs :
       Activate(d, req) /\ UNCHANGED <<cellVars, tableVars, chainVars, svcVars>>
  \/ \E id \in Ids, req \in Reqs :
       GetDependency(id, req) /\ UNCHANGED <<cellVars, tableVars, chainVars, svcVars>>
  \/ \E requests \in Batches :
       RequestBatch(requests) /\ UNCHANGED <<cellVars, tableVars, chainVars, svcVars>>

\* --------------------------------------------- apps service: permissions
\*
\* Permissions.default is a plain object {id: Permission}.  Its entry
\* 'a.services.request' is always there; X, Y and Z stand for the entries a
\* table may hold beside it, each with a list of inherited ids.  UnknownId
\* is an id no table holds.  InheritedName is an id the table does not hold
\* either, but `Permissions.default[id]` finds a value for it on the
\* object's prototype (constructor, toString, ...): a function, which is
\* truthy and has no `inherits`.

DefaultId == "a.services.request"
PermIds == {DefaultId, "X", "Y", "Z"}
UnknownId == "not.a.real.permission"
InheritedName == "constructor"
RequestIds == {DefaultId, "X", "Y", "Z", UnknownId, InheritedName}
InheritLists == {<<>>, <<"X">>, <<"Y">>, <<"X", "Z">>, <<UnknownId>>}

NoEntry == [present |-> FALSE, inherits |-> <<>>]
Entries == {NoEntry} \cup {[present |-> TRUE, inherits |-> l] : l \in InheritLists}
Tables == {t \in [PermIds -> Entries] :
             t[DefaultId] = [present |-> TRUE, inherits |-> <<>>]}
RequestLists == UNION {[1..n -> RequestIds] : n \in 0..MaxRequest}

\* A table with the inheritance of the source's: Y inherits X as
\* a.openroom.state.set inherits a.openroom.state.get, the other entries
\* inherit nothing.
DefaultTable ==
  [id \in PermIds |->
     [present |-> TRUE, inherits |-> IF id = "Y" THEN <<"X">> ELSE <<>>]]

\* What Permissions.default[id] evaluates to.
PermissionOf(id) ==
  IF id \in PermIds /\ ptable[id].present THEN "permission"
  ELSE IF id = InheritedName THEN "inherited"
  ELSE "undefined"

inherits(id) == ptable[id].inherits

\* grantOn.  X and Y are as the a.openroom.state.* permissions: they throw
\* before any put when the context has no room_id, else put policies; Z is
\* as 'a.services.request': it puts and never throws.  X and Y put at one
\* common address (q), X and Z at another (p), so that the order of the
\* grants shows in the map.
Addrs == {"services", "p", "q", "r"}
Throws(id, rm) == id \in {"X", "Y"} /\ ~rm
Puts(id) ==
  CASE id = DefaultId -> << <<"services", "ALLOW">> >>
    [] id = "X" -> << <<"p", "ALLOW">>, <<"q", "DENY">> >>
    [] id = "Y" -> << <<"q", "ALLOW">>, <<"r", "DENY">> >>
    [] id = "Z" -> << <<"p", "DENY">> >>

\* getRpcChannel(channel.port1, rpc.AccessPolicy.DENY): the policy of the
\* addresses nothing was put at.
DefaultPolicy == "DENY"
PolicyAt(a, addr) == IF a[addr] = "unset" THEN DefaultPolicy ELSE a[addr]

\* A map that keeps the policy put first at an address.
putFirstWins(a, addr, policy) ==
  IF a[addr] = "unset" THEN [a EXCEPT ![addr] = policy] ELSE a

\* AddressMap.put(address, policy): the last put at an address wins
put(a, addr, policy) == [a EXCEPT ![addr] = policy]

RECURSIVE ApplyPuts(_, _)
ApplyPuts(a, puts) ==
  IF puts = <<>> THEN a
  ELSE ApplyPuts(put(a, puts[1][1], puts[1][2]), Tail(puts))

\* A check of `granted` that never finds the permission.
AlreadyGrantedNever(perm) == FALSE

\* granted.has(perm_obj)
AlreadyGranted(perm) == perm \in granted

\* granted.add left out.
MarkGrantedNot(perm) == granted

\* granted.add(perm_obj)
MarkGranted(perm) == granted \cup {perm}

\* An exception of grantOn that leaves addPermission and the method.
AfterGrantThrowsUncaught(rest) == [stack |-> <<>>, res |-> "throw"]

\* try { grantOn } catch (e) { log.warn }: the call goes on
AfterGrantThrows(rest) == [stack |-> rest, res |-> "running"]

\* A forEach over inherits that is taken to be over at once.
ForEachOverAtOnce(f) == TRUE

\* perm_obj.inherits.forEach(...) of the call f has gone through the list
ForEachOver(f) == f.k > Len(inherits(f.perm))

\* The calls at top level without the one the method adds.
TopListOfApp == prequest

\* The list addPermission is called on at top level:
\* app.permissions.value.forEach(addPermission), then
\* addPermission('a.services.request').
TopList == prequest \o <<DefaultId>>

Top == pstack[Len(pstack)]
Caller == [pstack EXCEPT ![Len(pstack)].k = @ + 1]
Front == SubSeq(pstack, 1, Len(pstack) - 1)

\* addPermission(perm) up to its inherits.forEach; rest is the stack of the
\* calls it was made from.
addPermission(perm, rest) ==
  /\ Len(rest) < MaxDepth
  /\ CASE PermissionOf(perm) = "undefined" ->
            /\ warned' = Append(warned, <<perm, "not known">>)
            /\ pstack' = rest
            /\ UNCHANGED <<granted, pres>>
       [] PermissionOf(perm) = "inherited" ->
            \* perm_obj.inherits is undefined: forEach throws a TypeError
            \* outside the try
            /\ granted' = MarkGranted(perm)
            /\ pstack' = <<>>
            /\ pres' = "throw"
            /\ UNCHANGED warned
       [] PermissionOf(perm) = "permission" ->
            /\ IF AlreadyGranted(perm)
                 THEN pstack' = rest /\ UNCHANGED granted
                 ELSE /\ granted' = MarkGranted(perm)
                      /\ pstack' = Append(rest, [perm |-> perm, k |-> 1])
            /\ UNCHANGED <<warned, pres>>
  /\ UNCHANGED <<ptable, pop, prequest, room, acl, known_permissions,
                 unknown_permissions, grant_log>>

\* setupAndGetEntryChannel from `const granted = new Set()` on.
ApplyStart(request, rm) ==
  /\ pop = "idle"
  /\ pop' = "apply"
  /\ prequest' = request
  /\ room' = rm
  /\ ptop' = 1
  /\ pres' = "running"
  /\ UNCHANGED <<ptable, pstack, granted, acl, known_permissions,
                 unknown_permissions, grant_log, warned>>

\* The next call made at top level.
ApplyTop ==
  /\ pop = "apply" /\ pres = "running"
  /\ pstack = <<>>
  /\ ptop <= Len(TopList)
  /\ ptop' = ptop + 1
  /\ addPermission(TopList[ptop], <<>>)

\* The next call made by perm_obj.inherits.forEach(addPermission).
ApplyInherits ==
  /\ pop = "apply" /\ pres = "running"
  /\ pstack # <<>>
  /\ ~ForEachOver(Top)
  /\ Top.k <= Len(inherits(Top.perm))
  /\ addPermission(inherits(Top.perm)[Top.k], Caller)
  /\ UNCHANGED ptop

\* try { perm_obj.grantOn(ch.access, context) } catch (e) { log.warn }, and
\* the return of addPermission.
ApplyGrant ==
  /\ pop = "apply" /\ pres = "running"
  /\ pstack # <<>>
  /\ ForEachOver(Top)
  /\ grant_log' = Append(grant_log, Top.perm)
  /\ IF Throws(Top.perm, room)
       THEN /\ warned' = Append(warned, <<Top.perm, "failed to grant">>)
            /\ pstack' = AfterGrantThrows(Front).stack
            /\ pres' = AfterGrantThrows(Front).res
            /\ UNCHANGED acl
       ELSE /\ acl' = ApplyPuts(acl, Puts(Top.perm))
            /\ pstack' = Front
            /\ UNCHANGED <<warned, pres>>
  /\ UNCHANGED <<ptable, pop, prequest, room, ptop, granted,
                 known_permissions, unknown_permissions>>

\* return { port: channel.port2, context }
ApplyReturn ==
  /\ pop = "apply" /\ pres = "running"
  /\ pstack = <<>>
  /\ ptop > Len(TopList)
  /\ pres' = "return"
  /\ UNCHANGED <<ptable, pop, prequest, room, ptop, pstack, granted, acl,
                 known_permissions, unknown_permissions, grant_log, warned>>

IsKnown(name) == \E e \in known_permissions : e[1] = name

\* resolvePermission(name) up to its inherits.forEach.
resolvePermission(name, rest) ==
  /\ Len(rest) < MaxDepth
  /\ CASE PermissionOf(name) = "undefined" ->
            /\ unknown_permissions' = Append(unknown_permissions, name)
            /\ pstack' = rest
            /\ UNCHANGED known_permissions
       [] PermissionOf(name) = "inherited" ->
            \* data is truthy, and so is resp.known_permissions[name], which
            \* the empty object literal inherits as well
            /\ pstack' = rest
            /\ UNCHANGED <<known_permissions, unknown_permissions>>
       [] PermissionOf(name) = "permission" ->
            /\ IF IsKnown(name)
                 THEN pstack' = rest /\ UNCHANGED known_permissions
                 ELSE /\ known_permissions' =
                           known_permissions \cup {<<name, inherits(name)>>}
                      /\ pstack' = Append(rest, [perm |-> name, k |-> 1])
            /\ UNCHANGED unknown_permissions
  /\ UNCHANGED <<ptable, pop, prequest, room, granted, acl, grant_log,
                 warned, pres>>

\* fetchAndVerifyManifest from `const resp` on, for a manifest that
\* validates.
ResolveStart(request) ==
  /\ pop = "idle"
  /\ pop' = "resolve"
  /\ prequest' = request
  /\ ptop' = 1
  /\ pres' = "running"
  /\ UNCHANGED <<ptable, room, pstack, granted, acl, known_permissions,
                 unknown_permissions, grant_log, warned>>

\* The next call made by request_permissions.forEach(resolvePermission).
ResolveTop ==
  /\ pop = "resolve" /\ pres = "running"
  /\ pstack = <<>>
  /\ ptop <= Len(prequest)
  /\ ptop' = ptop + 1
  /\ resolvePermission(prequest[ptop], <<>>)

\* The next call made by data.inherits.forEach(resolvePermission).
ResolveInherits ==
  /\ pop = "resolve" /\ pres = "running"
  /\ pstack # <<>>
  /\ Top.k <= Len(inherits(Top.perm))
  /\ resolvePermission(inherits(Top.perm)[Top.k], Caller)
  /\ UNCHANGED ptop

\* The return of resolvePermission after its forEach.
ResolveBack ==
  /\ pop = "resolve" /\ pres = "running"
  /\ pstack # <<>>
  /\ Top.k > Len(inherits(Top.perm))
  /\ pstack' = Front
  /\ UNCHANGED <<ptable, pop, prequest, room, ptop, granted, acl,
                 known_permissions, unknown_permissions, grant_log, warned,
                 pres>>

\* resolve(resp)
ResolveReturn ==
  /\ pop = "resolve" /\ pres = "running"
  /\ pstack = <<>>
  /\ ptop > Len(prequest)
  /\ pres' = "return"
  /\ UNCHANGED <<ptable, pop, prequest, room, ptop, pstack, granted, acl,
                 known_permissions, unknown_permissions, grant_log, warned>>

PermInit ==
  /\ ptable \in Tables
  /\ pop = "idle"
  /\ prequest = <<>>
  /\ room = FALSE
  /\ ptop = 1
  /\ pstack = <<>>
  /\ granted = {}
  /\ acl = [a \in Addrs |-> "unset"]
  /\ known_permissions = {}
  /\ unknown_permissions = <<>>
  /\ grant_log = <<>>
  /\ warned = <<>>
  /\ pres = "none"

\* The statements of the running method, which nothing interrupts.
PermRun ==
  /\ \/ ApplyTop
     \/ ApplyInherits
     \/ ApplyGrant
     \/ ApplyReturn
     \/ ResolveTop
     \/ ResolveInherits
     \/ ResolveBack
     \/ ResolveReturn
  /\ UNCHANGED <<cellVars, tableVars, chainVars, regVars, tokenVars, userVars, appVars>>

PermNext ==
  \/ \E request \in RequestLists, rm \in BOOLEAN :
       ApplyStart(request, rm) /\ UNCHANGED <<cellVars, tableVars, chainVars, regVars, tokenVars, userVars, appVars>>
  \/ ApplyTop /\ UNCHANGED <<cellVars, tableVars, chainVars, regVars, tokenVars, userVars, appVars>>
  \/ ApplyInherits /\ UNCHANGED <<cellVars, tableVars, chainVars, regVars, tokenVars, userVars, appVars>>
  \/ ApplyGrant /\ UNCHANGED <<cellVars, tableVars, chainVars, regVars, tokenVars, userVars, appVars>>
  \/ ApplyReturn /\ UNCHANGED <<cellVars, tableVars, chainVars, regVars, tokenVars, userVars, appVars>>
  \/ \E request \in RequestLists :
       ResolveStart(request) /\ UNCHANGED <<cellVars, tableVars, chainVars, regVars, tokenVars, userVars, appVars>>
  \/ ResolveTop /\ UNCHANGED <<cellVars, tableVars, chainVars, regVars, tokenVars, userVars, appVars>>
  \/ ResolveInherits /\ UNCHANGED <<cellVars, tableVars, chainVars, regVars, tokenVars, userVars, appVars>>
  \/ ResolveBack /\ UNCHANGED <<cellVars, tableVars, chainVars, regVars, tokenVars, userVars, appVars>>
  \/ ResolveReturn /\ UNCHANGED <<cellVars, tableVars, chainVars, regVars, tokenVars, userVars, appVars>>

\* ------------------------------------------- apps service: entry tokens

AppUrls == {"u1", "u2"}
Tokens == {"t1", "t2"}          \* the keys generateUniqueKey can produce
Contexts == {"room", "no room"} \* provided_ctx

NoCall == [op |-> "none", arg |-> "none", kind |-> "return", value |-> <<>>,
           error |-> "none"]
Outcome(op, arg, kind, v, e) ==
  [op |-> op, arg |-> arg, kind |-> kind, value |-> v, error |-> e]

\* setupApp(ac_id, url, manifest): account.value[url] = app.  The App is new
\* or a copy of the old one, permissions included.
SetupApp(u) ==
  /\ known_apps' = IF u \in DOMAIN known_apps THEN known_apps
                   ELSE [x \in DOMAIN known_apps \cup {u} |->
                           IF x = u THEN "ok" ELSE known_apps[x]]
  /\ elast' = Outcome("setupApp", u, "return", <<>>, "none")
  /\ UNCHANGED <<app_tokens, timers, nchannels, spent>>

\* setPermissions(ac_id, url, permissions) with a permission whose id names
\* an inherited property of the table (bad) or with that permission removed.
SetPermissions(u, b) ==
  /\ IF u \in DOMAIN known_apps
       THEN /\ known_apps' = [known_apps EXCEPT ![u] = IF b THEN "bad" ELSE "ok"]
            /\ elast' = Outcome("setPermissions", u, "return", <<>>, "none")
       ELSE /\ elast' = Outcome("setPermissions", u, "throw", <<>>,
                                "App not registered on account")
            /\ UNCHANGED known_apps
  /\ UNCHANGED <<app_tokens, timers, nchannels, spent>>

\* A redeemEntryToken that leaves the token in place.
WithoutTokenKeep(m, t) == m

\* app_tokens.delete(token)
WithoutToken(m, t) == [x \in DOMAIN m \ {t} |-> m[x]]

\* setupEntryChannel(account_id, app_url, entry, provided_ctx): the call of
\* setupAndGetEntryChannel, the token, the timer and the table entry.
SetupEntryChannel(u, c) ==
  IF u \notin DOMAIN known_apps
    THEN /\ elast' = Outcome("setupEntryChannel", u, "throw", <<>>,
                             "App has not been registered")
         /\ UNCHANGED <<known_apps, app_tokens, timers, nchannels, spent>>
  ELSE /\ nchannels < MaxSetups
       /\ nchannels' = nchannels + 1
       /\ IF known_apps[u] = "bad"
            THEN /\ elast' = Outcome("setupEntryChannel", u, "throw", <<>>,
                                     "TypeError")
                 /\ UNCHANGED <<known_apps, app_tokens, timers, spent>>
            ELSE \E token \in Tokens \ DOMAIN app_tokens :
                   /\ app_tokens' =
                        [x \in DOMAIN app_tokens \cup {token} |->
                           IF x = token
                             THEN [port |-> nchannels + 1,
                                   context |-> [app_url |-> u, provided |-> c]]
                             ELSE app_tokens[x]]
                   /\ timers' = timers \cup {token}
                   /\ spent' = {e \in spent : e[1] # token}
                   /\ elast' = Outcome("setupEntryChannel", u, "return", token, "none")
                   /\ UNCHANGED known_apps

\* redeemEntryToken(token)
RedeemEntryToken(t) ==
  IF t \notin DOMAIN app_tokens
    THEN /\ elast' = Outcome("redeemEntryToken", t, "throw", <<>>,
                             "Token does not exist or has expired")
         /\ UNCHANGED <<known_apps, app_tokens, timers, nchannels, spent>>
  ELSE \* tokenctx.clear()
       /\ app_tokens' = WithoutToken(app_tokens, t)
       /\ timers' = timers \ {t}
       /\ spent' = spent \cup {<<t, "redeemed">>}
       /\ elast' = Outcome("redeemEntryToken", t, "return", app_tokens[t], "none")
       /\ UNCHANGED <<known_apps, nchannels>>

\* The timer of a token fires: clear()
TokenTimeout(t) ==
  /\ t \in timers
  /\ app_tokens' = WithoutToken(app_tokens, t)
  /\ timers' = timers \ {t}
  /\ spent' = spent \cup {<<t, "expired">>}
  /\ elast' = Outcome("timeout", t, "return", <<>>, "none")
  /\ UNCHANGED <<known_apps, nchannels>>

TokenInit ==
  /\ known_apps = <<>>
  /\ app_tokens = <<>>
  /\ timers = {}
  /\ nchannels = 0
  /\ spent = {}
  /\ elast = NoCall

TokenNext ==
  \/ \E u \in AppUrls :
       SetupApp(u) /\ UNCHANGED <<cellVars, tableVars, chainVars, regVars, permVars, userVars, appVars>>
  \/ \E u \in AppUrls, b \in BOOLEAN :
       SetPermissions(u, b) /\ UNCHANGED <<cellVars, tableVars, chainVars, regVars, permVars, userVars, appVars>>
  \/ \E u \in AppUrls, c \in Contexts :
       SetupEntryChannel(u, c) /\ UNCHANGED <<cellVars, tableVars, chainVars, regVars, permVars, userVars, appVars>>
  \/ \E t \in Tokens :
       RedeemEntryToken(t) /\ UNCHANGED <<cellVars, tableVars, chainVars, regVars, permVars, userVars, appVars>>
  \/ \E t \in Tokens :
       TokenTimeout(t) /\ UNCHANGED <<cellVars, tableVars, chainVars, regVars, permVars, userVars, appVars>>

\* ------------------------------------------- matrix service: user state
\* One account of the Matrix service (the newer ServiceClass), its
\* MatrixInstance and one listenUserState subscriber.  Every action is one
\* synchronous run.  A read of the storage backend completes in a later run:
\* KvStorageBackend.get returns a promise the embedder settles, so any
\* number of other continuations may run before it does.

AccountStates == {"UNAUTHENTICATED", "INACTIVE", "STARTING", "ACTIVE", "OFFLINE"}
MxStates == {"PREPARED", "SYNCING", "ERROR", "RECONNECTING", "CATCHUP", "STOPPED"}

\* The sync listener start() attaches to the client: client state to account state.
SyncStateOf(mx) ==
  CASE mx \in {"PREPARED", "SYNCING"} -> "ACTIVE"
    [] mx \in {"ERROR", "RECONNECTING"} -> "OFFLINE"
    [] mx = "CATCHUP" -> "STARTING"
    [] mx = "STOPPED" -> "INACTIVE"

\* The setter of instance.state: the generator waiting on the cell is woken
\* when the value changes.
StateSet(v) ==
  /\ state' = v
  /\ inner_promise' = IF state # v /\ user_gen = "state" /\ inner_promise = "pending"
                        THEN "resolved" ELSE inner_promise

RoomIds == {"!r1", "!r2"}

keepClient == UNCHANGED <<client, room_list>>

\* instance.stopClient(): the client is stopped and dropped and the room
\* list is emptied.  (Without a client nothing is done; the room list is
\* then empty already.)
stopClient ==
  IF client THEN client' = FALSE /\ room_list' = {}
  ELSE UNCHANGED <<client, room_list>>

\* updateRooms, the handler of the client's room events, for the rooms the
\* client knows: it reads `.room` of the list's entry of each room, which
\* throws for a room that is not in the list yet; with every room in the
\* list it drops the entries of the rooms the client does not know.
updateRooms(rooms) ==
  IF \E r \in rooms : r \notin room_list THEN room_list
  ELSE room_list \cap rooms

\* The client emits a room event.
RoomEvent(rooms) ==
  /\ client
  /\ room_list' = updateRooms(rooms)
  /\ UNCHANGED stop_ret
  /\ UNCHANGED userVars

\* Whether a read of the credentials finds them.
hasCredentials == credentials # "none"

\* fromToken() stores the credentials of the account; KvBackendCache.set
\* keeps them in the cache.
StoreCredentials ==
  /\ credentials = "none"
  /\ start_pc = "idle"
  /\ lpc # "storage"
  /\ credentials' = "cached"
  /\ UNCHANGED <<instances, state, client, start_pc, stop_pending, nstarts, nstops,
                 nsyncs, syncs, ulast, outer_pc, outer_held, outer_promise, user_gen,
                 inner_pc, inner_held, inner_promise, user_queue, lpc, lheld,
                 delivered, on_time>>

\* start(), up to its first await.  A running client with a live state makes
\* it return at once; a client whose state is inactive is stopped first, by
\* a stop() call nobody awaits.
Start ==
  /\ start_pc = "idle"
  /\ nstarts + nstops < MaxCalls
  /\ nstarts' = nstarts + 1
  /\ IF instances = "instance" /\ client /\ state \notin {"INACTIVE", "UNAUTHENTICATED"}
       THEN /\ ulast' = "return"
            /\ UNCHANGED <<start_pc, client, stop_pending, room_list>>
       ELSE /\ start_pc' = "cred"
            /\ ulast' = "none"
            /\ IF instances = "instance" /\ client
                 THEN stopClient /\ stop_pending' = stop_pending + 1
                 ELSE UNCHANGED <<client, stop_pending, room_list>>
  /\ UNCHANGED stop_ret
  /\ UNCHANGED <<credentials, instances, state, nstops, nsyncs, syncs, outer_pc, outer_held,
                 outer_promise, user_gen, inner_pc, inner_held, inner_promise,
                 user_queue, lpc, lheld, delivered, on_time>>

\* start() after the credentials were read: without them it throws; with them
\* and no instance it creates one, stores it in the instance table (which
\* wakes the table's generator) and calls populateAuthState(), which reads the
\* storage again; with an instance it goes on to create the client.
\* KvBackendCache.get answers cached credentials with Promise.resolve: that
\* read, populateAuthState() and the assignment of STARTING are done three
\* continuations after the table was written, while the table's generator,
\* mapGen and the loop of chainGen need five to reach the state cell, so the
\* cached case is one step here.
StartCredentials ==
  /\ start_pc = "cred"
  /\ IF ~hasCredentials
       THEN /\ start_pc' = "idle"
            /\ ulast' = "throw"
            /\ UNCHANGED <<instances, state, client, outer_promise, inner_promise>>
       ELSE IF instances = "undefined"
              THEN /\ instances' = "instance"
                   /\ outer_promise' = IF outer_promise = "pending" THEN "resolved"
                                       ELSE outer_promise
                   /\ IF credentials = "cached"
                        THEN /\ state' = "STARTING"
                             /\ client' = TRUE
                             /\ start_pc' = "startClient"
                        ELSE /\ state' = "UNAUTHENTICATED"
                             /\ start_pc' = "populate"
                             /\ UNCHANGED client
                   /\ UNCHANGED <<ulast, inner_promise>>
              ELSE /\ StateSet("STARTING")
                   /\ client' = TRUE
                   /\ start_pc' = "startClient"
                   /\ UNCHANGED <<instances, ulast, outer_promise>>
  /\ UNCHANGED <<credentials, stop_pending, nstarts, nstops, nsyncs, syncs, outer_pc,
                 outer_held, user_gen, inner_pc, inner_held, user_queue, lpc,
                 lheld, delivered, on_time>>

\* populateAuthState() after its storage read.
populateAuthState ==
  /\ start_pc = "populate"
  /\ IF state \in {"UNAUTHENTICATED", "INACTIVE"}
       THEN StateSet(IF hasCredentials THEN "INACTIVE" ELSE "UNAUTHENTICATED")
       ELSE UNCHANGED <<state, inner_promise>>
  /\ start_pc' = "populated"
  /\ UNCHANGED <<credentials, instances, client, stop_pending, nstarts, nstops,
                 nsyncs, syncs, ulast, outer_pc, outer_held, outer_promise, user_gen,
                 inner_pc, inner_held, user_queue, lpc, lheld, delivered, on_time>>

\* start() after populateAuthState(): the state becomes STARTING, the client is
\* created with its sync listener and startClient() is called.
StartClient ==
  /\ start_pc = "populated"
  /\ StateSet("STARTING")
  /\ client' = TRUE
  /\ start_pc' = "startClient"
  /\ UNCHANGED <<credentials, instances, stop_pending, nstarts, nstops, nsyncs, syncs,
                 ulast, outer_pc, outer_held, outer_promise, user_gen, inner_pc,
                 inner_held, user_queue, lpc, lheld, delivered, on_time>>

\* client.startClient() resolves and start() returns.
StartReturn ==
  /\ start_pc = "startClient"
  /\ start_pc' = "idle"
  /\ ulast' = "return"
  /\ UNCHANGED <<credentials, instances, state, client, stop_pending, nstarts,
                 nstops, nsyncs, syncs, outer_pc, outer_held, outer_promise, user_gen,
                 inner_pc, inner_held, inner_promise, user_queue, lpc, lheld,
                 delivered, on_time>>

\* The client emits a sync event.
Sync(mx) ==
  /\ client
  /\ nsyncs < MaxSyncs
  /\ nsyncs' = nsyncs + 1
  /\ StateSet(SyncStateOf(mx))
  /\ syncs' = IF mx \in {"PREPARED", "SYNCING"} /\ syncs # "other"
               THEN "successful" ELSE "other"
  /\ UNCHANGED <<credentials, instances, client, start_pc, stop_pending, nstarts,
                 nstops, ulast, outer_pc, outer_held, outer_promise, user_gen,
                 inner_pc, inner_held, user_queue, lpc, lheld, delivered, on_time>>

\* stop(), up to its await.
StopCall ==
  /\ nstarts + nstops < MaxCalls
  /\ nstops' = nstops + 1
  /\ IF instances = "instance"
       THEN stopClient /\ stop_pending' = stop_pending + 1 /\ UNCHANGED stop_ret
       ELSE stop_ret' = "false" /\ UNCHANGED <<client, stop_pending, room_list>>
  /\ UNCHANGED <<credentials, instances, state, start_pc, nstarts, nsyncs, syncs, ulast,
                 outer_pc, outer_held, outer_promise, user_gen, inner_pc,
                 inner_held, inner_promise, user_queue, lpc, lheld, delivered,
                 on_time>>

\* stop() after its await.
StopReturn ==
  /\ stop_pending > 0
  /\ stop_pending' = stop_pending - 1
  /\ StateSet("INACTIVE")
  /\ stop_ret' = "true"
  /\ UNCHANGED room_list
  /\ UNCHANGED <<credentials, instances, client, start_pc, nstarts, nstops, nsyncs, syncs,
                 ulast, outer_pc, outer_held, outer_promise, user_gen, inner_pc,
                 inner_held, user_queue, lpc, lheld, delivered, on_time>>

\* The moment of a next() call or of its answer, seen from the account's
\* life: before start() was called; while the client is starting and has
\* not synced; after start() returned and every sync was successful; after
\* stop() returned as well.
Moment ==
  CASE hasCredentials /\ nstarts = 0 /\ nstops = 0 -> 1
    [] hasCredentials /\ nstarts = 1 /\ nstops = 0 /\ start_pc = "startClient"
         /\ syncs = "none" -> 2
    [] hasCredentials /\ nstarts = 1 /\ nstops = 0 /\ start_pc = "idle"
         /\ ulast = "return" /\ syncs = "successful" -> 3
    [] hasCredentials /\ nstarts = 1 /\ nstops = 1 /\ start_pc = "idle"
         /\ stop_pending = 0 /\ ulast = "return" /\ syncs = "successful" -> 4
    [] OTHER -> 0

\* A next() call on the listenUserState generator.  The first one runs the
\* body up to its first await: the chained stream is created, its background
\* task asks the table's generator for the entry of the account, and that
\* generator registers its callback and reads the entry.
UserPull ==
  /\ lpc \in {"unstarted", "suspended"}
  /\ Len(delivered) < MaxUserPulls
  /\ on_time' = (on_time /\ Moment = Len(delivered) + 1)
  /\ lpc' = "next"
  /\ IF lpc = "unstarted"
       THEN /\ outer_pc' = "yielded"
            /\ outer_held' = instances
            /\ outer_promise' = "pending"
       ELSE UNCHANGED <<outer_pc, outer_held, outer_promise>>
  /\ UNCHANGED <<credentials, instances, state, client, start_pc, stop_pending,
                 nstarts, nstops, nsyncs, syncs, ulast, user_gen, inner_pc, inner_held,
                 inner_promise, user_queue, lheld, delivered>>

\* The background task of chainGen receives the table entry: the stream made
\* from it (the state cell's generator, or yieldSingle('UNAUTHENTICATED')
\* when there is no instance) becomes pub_gen, startChaining() asks it for
\* its first value, which it reads now, and the table's generator is asked
\* for the next entry.
startChaining ==
  /\ outer_pc = "yielded"
  /\ user_gen' = IF outer_held = "instance" THEN "state" ELSE "single"
  /\ inner_pc' = "yielded"
  /\ inner_held' = IF outer_held = "instance" THEN state ELSE "UNAUTHENTICATED"
  /\ inner_promise' = IF outer_held = "instance" THEN "pending" ELSE "never"
  /\ outer_pc' = "awaiting"
  /\ UNCHANGED <<credentials, instances, state, client, start_pc, stop_pending,
                 nstarts, nstops, nsyncs, syncs, ulast, outer_held, outer_promise,
                 user_queue, lpc, lheld, delivered, on_time>>

\* The table's generator after its promise resolved: it registers a new
\* callback and reads the entry again.
OuterNext ==
  /\ outer_pc = "awaiting"
  /\ outer_promise = "resolved"
  /\ outer_pc' = "yielded"
  /\ outer_held' = instances
  /\ outer_promise' = "pending"
  /\ UNCHANGED <<credentials, instances, state, client, start_pc, stop_pending,
                 nstarts, nstops, nsyncs, syncs, ulast, user_gen, inner_pc, inner_held,
                 inner_promise, user_queue, lpc, lheld, delivered, on_time>>

\* The loop of startChaining() receives a value of pub_gen, queues it on the
\* chained stream and asks for the next one.
UserForward ==
  /\ inner_pc = "yielded"
  /\ user_queue' = Append(user_queue, inner_held)
  /\ inner_pc' = "awaiting"
  /\ UNCHANGED <<credentials, instances, state, client, start_pc, stop_pending,
                 nstarts, nstops, nsyncs, syncs, ulast, outer_pc, outer_held,
                 outer_promise, user_gen, inner_held, inner_promise, lpc, lheld,
                 delivered, on_time>>

\* The state cell's generator after its promise resolved: it registers a new
\* callback and reads the state.
InnerNext ==
  /\ inner_pc = "awaiting"
  /\ inner_promise = "resolved"
  /\ inner_pc' = "yielded"
  /\ inner_held' = state
  /\ inner_promise' = "pending"
  /\ UNCHANGED <<credentials, instances, state, client, start_pc, stop_pending,
                 nstarts, nstops, nsyncs, syncs, ulast, outer_pc, outer_held,
                 outer_promise, user_gen, user_queue, lpc, lheld, delivered,
                 on_time>>

\* The loop of listenUserState takes the next value of the chained stream and
\* starts reading the credentials.
ListenTake ==
  /\ lpc = "next"
  /\ user_queue # <<>>
  /\ lheld' = Head(user_queue)
  /\ user_queue' = Tail(user_queue)
  /\ lpc' = "storage"
  /\ UNCHANGED <<credentials, instances, state, client, start_pc, stop_pending,
                 nstarts, nstops, nsyncs, syncs, ulast, outer_pc, outer_held,
                 outer_promise, user_gen, inner_pc, inner_held, inner_promise,
                 delivered, on_time>>

\* The state listenUserState reports for a value of the chained stream.
ReportedState(val, cred) ==
  IF ~cred THEN "UNAUTHENTICATED"
  ELSE IF val = "UNAUTHENTICATED" THEN "INACTIVE" ELSE val

\* The loop of listenUserState after its storage read: it yields.
ListenYield ==
  /\ lpc = "storage"
  /\ delivered' = Append(delivered, ReportedState(lheld, hasCredentials))
  /\ on_time' = (on_time /\ Moment = Len(delivered) + 1)
  /\ lpc' = "suspended"
  /\ UNCHANGED <<credentials, instances, state, client, start_pc, stop_pending,
                 nstarts, nstops, nsyncs, syncs, ulast, outer_pc, outer_held,
                 outer_promise, user_gen, inner_pc, inner_held, inner_promise,
                 user_queue, lheld>>

UserInit ==
  /\ credentials \in {"none", "stored"}
  /\ instances = "undefined"
  /\ state = "UNAUTHENTICATED"
  /\ client = FALSE
  /\ start_pc = "idle"
  /\ stop_pending = 0
  /\ nstarts = 0
  /\ nstops = 0
  /\ nsyncs = 0
  /\ syncs = "none"
  /\ ulast = "none"
  /\ outer_pc = "none"
  /\ outer_held = "undefined"
  /\ outer_promise = "none"
  /\ user_gen = "none"
  /\ inner_pc = "none"
  /\ inner_held = "UNAUTHENTICATED"
  /\ inner_promise = "none"
  /\ user_queue = <<>>
  /\ lpc = "unstarted"
  /\ lheld = "UNAUTHENTICATED"
  /\ delivered = <<>>
  /\ on_time = TRUE
  /\ room_list = {}
  /\ stop_ret = "none"

UserNext ==
  \/ StoreCredentials /\ UNCHANGED <<cellVars, tableVars, chainVars, regVars, permVars, tokenVars, listVars, stopVars, lateVars>>
  \/ Start /\ UNCHANGED <<cellVars, tableVars, chainVars, regVars, permVars, tokenVars, listVars, lateVars>>
  \/ StartCredentials /\ UNCHANGED <<cellVars, tableVars, chainVars, regVars, permVars, tokenVars, listVars, stopVars, lateVars>>
  \/ populateAuthState /\ UNCHANGED <<cellVars, tableVars, chainVars, regVars, permVars, tokenVars, listVars, stopVars, lateVars>>
  \/ StartClient /\ UNCHANGED <<cellVars, tableVars, chainVars, regVars, permVars, tokenVars, listVars, stopVars, lateVars>>
  \/ StartReturn /\ UNCHANGED <<cellVars, tableVars, chainVars, regVars, permVars, tokenVars, listVars, stopVars, lateVars>>
  \/ \E mx \in MxStates :
       Sync(mx) /\ UNCHANGED <<cellVars, tableVars, chainVars, regVars, permVars, tokenVars, listVars, stopVars, lateVars>>
  \/ \E rooms \in SUBSET RoomIds :
       RoomEvent(rooms) /\ UNCHANGED <<cellVars, tableVars, chainVars, regVars, permVars, tokenVars, listVars, lateVars>>
  \/ StopCall /\ UNCHANGED <<cellVars, tableVars, chainVars, regVars, permVars, tokenVars, listVars, lateVars>>
  \/ StopReturn /\ UNCHANGED <<cellVars, tableVars, chainVars, regVars, permVars, tokenVars, listVars, lateVars>>
  \/ UserPull /\ UNCHANGED <<cellVars, tableVars, chainVars, regVars, permVars, tokenVars, listVars, stopVars, lateVars>>
  \/ startChaining /\ UNCHANGED <<cellVars, tableVars, chainVars, regVars, permVars, tokenVars, listVars, stopVars, lateVars>>
  \/ OuterNext /\ UNCHANGED <<cellVars, tableVars, chainVars, regVars, permVars, tokenVars, listVars, stopVars, lateVars>>
  \/ UserForward /\ UNCHANGED <<cellVars, tableVars, chainVars, regVars, permVars, tokenVars, listVars, stopVars, lateVars>>
  \/ InnerNext /\ UNCHANGED <<cellVars, tableVars, chainVars, regVars, permVars, tokenVars, listVars, stopVars, lateVars>>
  \/ ListenTake /\ UNCHANGED <<cellVars, tableVars, chainVars, regVars, permVars, tokenVars, listVars, stopVars, lateVars>>
  \/ ListenYield /\ UNCHANGED <<cellVars, tableVars, chainVars, regVars, permVars, tokenVars, listVars, stopVars, lateVars>>

\* ------------------------------------- apps service: permission lists
\* One app url of one account.  setupApp and setPermissions run without
\* giving up control; the listenPermissions generator runs from a pull to
\* its `yield`, and from the resolution of its race to the next `yield`.

PermNames == {"a", "b", "c"}
KeyPairs == PermNames \X BOOLEAN

\* The third argument of setPermissions, as the sequence Object.keys gives
\* with the value of each key.
PermObjects ==
  {<<>>} \cup {<<kv>> : kv \in KeyPairs}
    \cup {pr \in KeyPairs \X KeyPairs : pr[1][1] # pr[2][1]}

includes(list, perm) == \E i \in 1..Len(list) : list[i] = perm

indexOf(list, perm) == CHOOSE i \in 1..Len(list) : list[i] = perm /\ \A j \in 1..(i - 1) : list[j] # perm

\* list.splice(i, 1)
splice(list, i) == [j \in 1..(Len(list) - 1) |-> IF j < i THEN list[j] ELSE list[j + 1]]

pushAlways(list, perm) == Append(list, perm)

\* `if (!includes(perm)) push(perm)`
pushIfAbsent(list, perm) == IF includes(list, perm) THEN list ELSE Append(list, perm)

\* One turn of the forEach of setPermissions: the list after it.
SetKey(list, kv) ==
  IF kv[2] THEN pushIfAbsent(list, kv[1])
  ELSE IF includes(list, kv[1]) THEN splice(list, indexOf(list, kv[1]))
  ELSE list

\* One turn of the forEach: whether it calls pushUpdate.
KeyPushes(list, kv) == kv[2] \/ includes(list, kv[1])

RECURSIVE SetKeys(_, _)
SetKeys(list, p) == IF p = <<>> THEN list ELSE SetKeys(SetKey(list, Head(p)), Tail(p))

RECURSIVE AnyPush(_, _)
AnyPush(list, p) ==
  IF p = <<>> THEN FALSE
  ELSE KeyPushes(list, Head(p)) \/ AnyPush(SetKey(list, Head(p)), Tail(p))

\* The subscriber is between a yield and the next one.
Subscribed == lp_pc \in {"yielded", "racing"}

\* One of the two promises of the race is resolved.
Woken == lp_account = "resolved" \/ lp_perm = "resolved"

NoSet == [kind |-> "none", p |-> <<>>, entry |-> 0, before |-> <<>>, pending |-> FALSE, woke |-> FALSE]

KeepWaiting(st) == st

\* A callback `() => r()` runs: the promise it belongs to is resolved.
RunCallback(st) == IF st = "pending" THEN "resolved" ELSE st

\* setupApp(ac_id, url, manifest): a new App takes the place of the entry;
\* copyTo gives it a copy of the old App's list.  The table write runs the
\* key callbacks, the one of accountgen among them.
setupApp ==
  /\ app_entry < MaxAppSetups
  /\ app_entry' = app_entry + 1
  /\ perm_list' = perm_list
  /\ lp_account' = RunCallback(lp_account)
  /\ lp_changed' = (lp_changed \/ Subscribed)
  /\ UNCHANGED <<lp_pc, lp_app, lp_perm, lp_last, slast>>

\* setPermissions(ac_id, url, p).
setPermissions(p) ==
  IF app_entry = 0
  THEN /\ slast' = [kind |-> "throw", p |-> p, entry |-> app_entry, before |-> <<>>,
                    pending |-> Subscribed /\ ~Woken, woke |-> Woken]
       /\ UNCHANGED <<app_entry, perm_list, lp_pc, lp_app, lp_account, lp_perm,
                      lp_last, lp_changed>>
  ELSE /\ perm_list' = SetKeys(perm_list, p)
       /\ lp_perm' = IF AnyPush(perm_list, p) /\ lp_app = app_entry
                     THEN RunCallback(lp_perm) ELSE lp_perm
       /\ lp_changed' = (lp_changed \/ (Subscribed /\ perm_list' # perm_list))
       /\ slast' = [kind |-> "return", p |-> p, entry |-> app_entry, before |-> perm_list,
                    pending |-> Subscribed /\ ~Woken,
                    woke |-> lp_account = "resolved" \/ lp_perm' = "resolved"]
       /\ UNCHANGED <<app_entry, lp_pc, lp_app, lp_account, lp_last>>

\* The body of the loop of listenPermissions up to its `yield`: it reads the
\* entry, makes the two generators, runs each to its first `yield` (which
\* registers their callbacks) and yields the list, or [] without an App.
ListenLoop ==
  /\ lp_app' = app_entry
  /\ lp_account' = "pending"
  /\ lp_perm' = IF app_entry # 0 THEN "pending" ELSE "none"
  /\ lp_last' = IF app_entry # 0 THEN perm_list ELSE <<>>
  /\ lp_changed' = FALSE
  /\ lp_pc' = "yielded"
  /\ UNCHANGED <<app_entry, perm_list, slast>>

\* The first next() call on the generator.
ListenStart ==
  /\ lp_pc = "unstarted"
  /\ ListenLoop

\* A later next() call: the generator goes on after its `yield` and
\* evaluates [accountgen.next(), permgen.next()].  Without an App permgen
\* is undefined: the call throws a TypeError, which ends the generator and
\* rejects the pull.
ListenPull ==
  /\ lp_pc = "yielded"
  /\ lp_pc' = IF lp_app = 0 THEN "thrown" ELSE "racing"
  /\ UNCHANGED <<app_entry, perm_list, lp_app, lp_account, lp_perm, lp_last,
                 lp_changed, slast>>

\* The race is won: the loop runs again and answers the pull.
ListenResume ==
  /\ lp_pc = "racing"
  /\ Woken
  /\ ListenLoop

ListInit ==
  /\ app_entry = 0
  /\ perm_list = <<>>
  /\ lp_pc = "unstarted"
  /\ lp_app = 0
  /\ lp_account = "none"
  /\ lp_perm = "none"
  /\ lp_last = <<>>
  /\ lp_changed = FALSE
  /\ slast = NoSet

ListNext ==
  \/ setupApp /\ UNCHANGED <<cellVars, tableVars, chainVars, regVars, permVars, tokenVars, userVars, stopVars, lateVars>>
  \/ \E p \in PermObjects :
       setPermissions(p) /\ UNCHANGED <<cellVars, tableVars, chainVars, regVars, permVars, tokenVars, userVars, stopVars, lateVars>>
  \/ ListenStart /\ UNCHANGED <<cellVars, tableVars, chainVars, regVars, permVars, tokenVars, userVars, stopVars, lateVars>>
  \/ ListenPull /\ UNCHANGED <<cellVars, tableVars, chainVars, regVars, permVars, tokenVars, userVars, stopVars, lateVars>>
  \/ ListenResume /\ UNCHANGED <<cellVars, tableVars, chainVars, regVars, permVars, tokenVars, userVars, stopVars, lateVars>>

\* ------------------------------------ matrix service: concurrent start
\* Several start() calls for one account.  Each call keeps the instance it
\* read from the table in a local variable across its awaits.  Credentials
\* an earlier session stored are read from the backend, which takes a turn
\* of the event loop: other calls run in between.  Credentials stored by
\* fromToken() in this session are answered from the cache, and the call
\* then runs up to startClient() before any other call is handled.

StartCalls == 1..MaxStartCalls
Insts == 1..MaxStartCalls
NoInst == 0

\* instance.active
active(i) == r_client[i] # 0

\* instance.createClient(...): a new client is stored in instance.client; a
\* client that was there is neither stopped nor kept.
createClient(i) ==
  /\ r_nclients' = r_nclients + 1
  /\ r_client' = [r_client EXCEPT ![i] = r_nclients + 1]
  /\ r_live' = r_live \cup {<<r_nclients + 1, i>>}

\* start(), up to its first await that gives way to other calls.  A running
\* client with a live state makes it return at once; a client whose state
\* is inactive is stopped first, by a stop() call nobody awaits.  With
\* credentials in the cache the call goes on to startClient(): that stop()
\* call sets INACTIVE after one continuation, before start() sets STARTING.
RaceStart(t) ==
  /\ r_pc[t] = "new"
  /\ LET i == r_table
         running == i # NoInst /\ active(i)
         corrupt == running /\ r_state[i] \in {"INACTIVE", "UNAUTHENTICATED"}
         \* after this.stop(account_id) ran stopClient()
         client1 == IF corrupt THEN [r_client EXCEPT ![i] = 0] ELSE r_client
         live1 == IF corrupt THEN r_live \ {<<r_client[i], i>>} ELSE r_live
         n == IF i = NoInst THEN r_ninst + 1 ELSE i
     IN IF running /\ ~corrupt
          THEN /\ r_pc' = [r_pc EXCEPT ![t] = "done"]
               /\ UNCHANGED <<r_table, r_ninst, r_state, r_client, r_nclients, r_live,
                              r_stops, r_inst>>
          ELSE IF r_cred = "cached"
            THEN /\ r_pc' = [r_pc EXCEPT ![t] = "startClient"]
                 /\ r_inst' = [r_inst EXCEPT ![t] = n]
                 /\ r_table' = n
                 /\ r_ninst' = IF i = NoInst THEN r_ninst + 1 ELSE r_ninst
                 /\ r_state' = [r_state EXCEPT ![n] = "STARTING"]
                 /\ r_nclients' = r_nclients + 1
                 /\ r_client' = [client1 EXCEPT ![n] = r_nclients + 1]
                 /\ r_live' = live1 \cup {<<r_nclients + 1, n>>}
                 /\ UNCHANGED r_stops
            ELSE /\ r_pc' = [r_pc EXCEPT ![t] = "cred"]
                 /\ r_inst' = [r_inst EXCEPT ![t] = i]
                 /\ r_client' = client1
                 /\ r_live' = live1
                 /\ r_stops' = IF corrupt THEN [r_stops EXCEPT ![i] = @ + 1] ELSE r_stops
                 /\ UNCHANGED <<r_table, r_ninst, r_state, r_nclients>>
  /\ UNCHANGED r_cred

\* start() after the credentials were read from the backend: without them
\* it throws; with them and no instance in its local variable it makes one
\* and stores it in the instance table, whatever the table holds by now, and
\* calls populateAuthState(); with an instance it creates the client.
RaceCredentials(t) ==
  /\ r_pc[t] = "cred"
  /\ IF r_cred = "none"
       THEN /\ r_pc' = [r_pc EXCEPT ![t] = "thrown"]
            /\ UNCHANGED <<r_table, r_ninst, r_state, r_client, r_nclients, r_live, r_inst>>
       ELSE IF r_inst[t] = NoInst
              THEN /\ r_ninst' = r_ninst + 1
                   /\ r_table' = r_ninst + 1
                   /\ r_inst' = [r_inst EXCEPT ![t] = r_ninst + 1]
                   /\ IF r_cred = "cached"
                        THEN /\ r_state' = [r_state EXCEPT ![r_ninst + 1] = "STARTING"]
                             /\ createClient(r_ninst + 1)
                             /\ r_pc' = [r_pc EXCEPT ![t] = "startClient"]
                        ELSE /\ r_pc' = [r_pc EXCEPT ![t] = "populate"]
                             /\ UNCHANGED <<r_state, r_client, r_nclients, r_live>>
              ELSE /\ r_state' = [r_state EXCEPT ![r_inst[t]] = "STARTING"]
                   /\ createClient(r_inst[t])
                   /\ r_pc' = [r_pc EXCEPT ![t] = "startClient"]
                   /\ UNCHANGED <<r_table, r_ninst, r_inst>>
  /\ UNCHANGED <<r_cred, r_stops>>

\* populateAuthState() of the new instance after its read of the
\* credentials, then start() up to startClient().
RaceClient(t) ==
  /\ r_pc[t] = "populate"
  /\ r_state' = [r_state EXCEPT ![r_inst[t]] = "STARTING"]
  /\ createClient(r_inst[t])
  /\ r_pc' = [r_pc EXCEPT ![t] = "startClient"]
  /\ UNCHANGED <<r_cred, r_table, r_ninst, r_stops, r_inst>>

\* client.startClient() resolves and start() returns.
RaceReturn(t) ==
  /\ r_pc[t] = "startClient"
  /\ r_pc' = [r_pc EXCEPT ![t] = "done"]
  /\ UNCHANGED <<r_cred, r_table, r_ninst, r_state, r_client, r_nclients, r_live,
                 r_stops, r_inst>>

\* The stop() call start() made for a client with an inactive state, after
\* its await.
RaceStopReturn(i) ==
  /\ r_stops[i] > 0
  /\ r_stops' = [r_stops EXCEPT ![i] = @ - 1]
  /\ r_state' = [r_state EXCEPT ![i] = "INACTIVE"]
  /\ UNCHANGED <<r_cred, r_table, r_ninst, r_client, r_nclients, r_live, r_pc, r_inst>>

\* A client that was not stopped emits a sync event; its listener sets the
\* state of the instance it was made for.
RaceSync(c, i, mx) ==
  /\ <<c, i>> \in r_live
  /\ r_state' = [r_state EXCEPT ![i] = SyncStateOf(mx)]
  /\ UNCHANGED <<r_cred, r_table, r_ninst, r_client, r_nclients, r_live, r_stops,
                 r_pc, r_inst>>

\* fromToken() stores the credentials of the account; KvBackendCache.set
\* keeps them in the cache.
RaceLogin ==
  /\ r_cred = "none"
  /\ \A t \in StartCalls : r_pc[t] # "cred"
  /\ r_cred' = "cached"
  /\ UNCHANGED <<r_table, r_ninst, r_state, r_client, r_nclients, r_live, r_stops,
                 r_pc, r_inst>>

RaceInit ==
  /\ r_cred \in {"none", "stored"}
  /\ r_table = NoInst
  /\ r_ninst = 0
  /\ r_state = [i \in Insts |-> "UNAUTHENTICATED"]
  /\ r_client = [i \in Insts |-> 0]
  /\ r_nclients = 0
  /\ r_live = {}
  /\ r_stops = [i \in Insts |-> 0]
  /\ r_pc = [t \in StartCalls |-> "new"]
  /\ r_inst = [t \in StartCalls |-> NoInst]

RaceNext ==
  \/ \E t \in StartCalls :
       RaceStart(t) /\ UNCHANGED <<cellVars, tableVars, chainVars, regVars, permVars, tokenVars, userVars, listVars, stopVars, acctVars>>
  \/ \E t \in StartCalls :
       RaceCredentials(t) /\ UNCHANGED <<cellVars, tableVars, chainVars, regVars, permVars, tokenVars, userVars, listVars, stopVars, acctVars>>
  \/ \E t \in StartCalls :
       RaceClient(t) /\ UNCHANGED <<cellVars, tableVars, chainVars, regVars, permVars, tokenVars, userVars, listVars, stopVars, acctVars>>
  \/ \E t \in StartCalls :
       RaceReturn(t) /\ UNCHANGED <<cellVars, tableVars, chainVars, regVars, permVars, tokenVars, userVars, listVars, stopVars, acctVars>>
  \/ \E i \in Insts :
       RaceStopReturn(i) /\ UNCHANGED <<cellVars, tableVars, chainVars, regVars, permVars, tokenVars, userVars, listVars, stopVars, acctVars>>
  \/ \E c \in 1..MaxStartCalls, i \in Insts, mx \in MxStates :
       RaceSync(c, i, mx) /\ UNCHANGED <<cellVars, tableVars, chainVars, regVars, permVars, tokenVars, userVars, listVars, stopVars, acctVars>>
  \/ RaceLogin /\ UNCHANGED <<cellVars, tableVars, chainVars, regVars, permVars, tokenVars, userVars, listVars, stopVars, acctVars>>

\* ------------------------------------------------------ accounts service
\* createAccount, getAccounts and exists of the accounts service over
\* KvBackendCache and a backend that answers its requests in the order they
\* were made.  A call runs until it waits for the backend; the continuation
\* of an await that waits for nothing of the backend is part of the same
\* step.

AccountCalls == 1..MaxAccountCalls
AccountOps == {"createAccount", "getAccounts", "exists"}
\* A stored value: an array of ids, or nothing.
NoList == [array |-> FALSE, ids |-> {}]
ListOf(ids) == [array |-> TRUE, ids |-> ids]

\* The account of an earlier session.
OldAccount == "u0"

\* generateUniqueKey(16, used): a key no account has; call t draws "k<t>".
KeyNames == <<"k1", "k2", "k3", "k4">>
generateUniqueKey(t) == KeyNames[t]

\* Array.isArray(list)
isArray(list) == list.array

Running(t) == a_pc[t] \in {"load", "got", "save", "saved"}

\* createAccount() after lazyLoadAccounts(): the account is put into the
\* map and saveAccountList() asks the storage to set the list to the keys
\* of the map.
CreateAndSave(t, ids) ==
  /\ a_map' = ids \cup {generateUniqueKey(t)}
  /\ a_val' = [a_val EXCEPT ![t] = ListOf(a_map')]
  /\ a_queue' = Append(a_queue, [op |-> "set", call |-> t])
  /\ a_pc' = [a_pc EXCEPT ![t] = "save"]

\* A call of createAccount, getAccounts or exists, up to its first wait
\* for the backend.  Each starts with lazyLoadAccounts(): the first call
\* sets has_lazy_loaded and asks the storage for the list (the cache has
\* no list before the first save); any later call finds the flag set and
\* goes on at once.
AccountCall(t, op) ==
  /\ a_pc[t] = "new"
  /\ a_kind' = [a_kind EXCEPT ![t] = op]
  /\ a_overlap' = (a_overlap \/ \E u \in AccountCalls : Running(u))
  /\ IF ~has_lazy_loaded
       THEN /\ has_lazy_loaded' = TRUE
            /\ a_queue' = Append(a_queue, [op |-> "get", call |-> t])
            /\ a_pc' = [a_pc EXCEPT ![t] = "load"]
            /\ UNCHANGED <<a_map, a_val>>
       ELSE /\ UNCHANGED has_lazy_loaded
            /\ IF op = "createAccount"
                 THEN CreateAndSave(t, a_map)
                 ELSE /\ a_pc' = [a_pc EXCEPT ![t] = "done"]
                      /\ UNCHANGED <<a_map, a_val, a_queue>>
  /\ UNCHANGED <<a_stored, a_cache>>

\* The backend answers its oldest request.
BackendAnswer ==
  /\ a_queue # <<>>
  /\ LET rq == Head(a_queue)
     IN IF rq.op = "get"
          THEN /\ a_val' = [a_val EXCEPT ![rq.call] = a_stored]
               /\ a_pc' = [a_pc EXCEPT ![rq.call] = "got"]
               /\ UNCHANGED a_stored
          ELSE /\ a_stored' = a_val[rq.call]
               /\ a_pc' = [a_pc EXCEPT ![rq.call] = "saved"]
               /\ UNCHANGED a_val
  /\ a_queue' = Tail(a_queue)
  /\ UNCHANGED <<a_cache, a_map, has_lazy_loaded, a_kind, a_overlap>>

\* lazyLoadAccounts() after its read: the ids of the list that are not in
\* the map are added to it; then the call that ran it goes on.
LoadResume(t) ==
  /\ a_pc[t] = "got"
  /\ LET loaded == IF isArray(a_val[t]) THEN a_map \cup a_val[t].ids ELSE a_map
     IN IF a_kind[t] = "createAccount"
          THEN CreateAndSave(t, loaded)
          ELSE /\ a_map' = loaded
               /\ a_pc' = [a_pc EXCEPT ![t] = "done"]
               /\ UNCHANGED <<a_val, a_queue>>
  /\ UNCHANGED <<a_stored, a_cache, has_lazy_loaded, a_kind, a_overlap>>

\* KvBackendCache.set after origin.set: the list is kept in the cache, and
\* saveAccountList() and createAccount() return.
SaveResume(t) ==
  /\ a_pc[t] = "saved"
  /\ a_cache' = a_val[t]
  /\ a_pc' = [a_pc EXCEPT ![t] = "done"]
  /\ UNCHANGED <<a_stored, a_map, has_lazy_loaded, a_queue, a_kind, a_val, a_overlap>>

AccountInit ==
  /\ a_stored \in {NoList, ListOf({OldAccount})}
  /\ a_cache = NoList
  /\ a_map = {}
  /\ has_lazy_loaded = FALSE
  /\ a_queue = <<>>
  /\ a_pc = [t \in AccountCalls |-> "new"]
  /\ a_kind = [t \in AccountCalls |-> "getAccounts"]
  /\ a_val = [t \in AccountCalls |-> NoList]
  /\ a_overlap = FALSE

AccountNext ==
  \/ \E t \in AccountCalls, op \in AccountOps :
       AccountCall(t, op) /\ UNCHANGED <<cellVars, tableVars, chainVars, regVars, permVars, tokenVars, userVars, listVars, stopVars, raceVars>>
  \/ BackendAnswer /\ UNCHANGED <<cellVars, tableVars, chainVars, regVars, permVars, tokenVars, userVars, listVars, stopVars, raceVars>>
  \/ \E t \in AccountCalls :
       LoadResume(t) /\ UNCHANGED <<cellVars, tableVars, chainVars, regVars, permVars, tokenVars, userVars, listVars, stopVars, raceVars>>
  \/ \E t \in AccountCalls :
       SaveResume(t) /\ UNCHANGED <<cellVars, tableVars, chainVars, regVars, permVars, tokenVars, userVars, listVars, stopVars, raceVars>>

\* ------------------------------------------------------- specifications

Init == CellInit /\ TableInit /\ ChainInit /\ RegInit /\ PermInit /\ TokenInit /\ UserInit /\ ListInit /\ RaceInit /\ AccountInit

\* Of the parts each specification runs one; the others are constructed
\* and never used.
CellUnused == value = "a"
ChainUnused == ocell = "none"
PermUnused == ptable = DefaultTable
UserUnused == credentials = "none"
RaceUnused == r_cred = "none"
AccountUnused == a_stored = NoList

InitCell == Init /\ ChainUnused /\ PermUnused /\ UserUnused /\ RaceUnused /\ AccountUnused
SpecCell == InitCell /\ [][CellNext]_vars
SpecCellStop == InitCell /\ [][CellStopNext]_vars

InitTable == Init /\ CellUnused /\ ChainUnused /\ PermUnused /\ UserUnused /\ RaceUnused /\ AccountUnused
SpecTable == InitTable /\ [][TableNext]_vars

InitChain == Init /\ CellUnused /\ PermUnused /\ UserUnused /\ RaceUnused /\ AccountUnused
SpecChain == InitChain /\ [][ChainNext]_vars
SpecChainStop == InitChain /\ [][ChainStopNext]_vars

\* The chained stream subscribed while the outer source holds nothing.  The
\* event loop runs every continuation that is ready, and the consumer goes
\* on calling next() (MaxChainPulls times).
ChainRun ==
  /\ \/ OuterResume
     \/ OuterDeliver
     \/ Switch
     \/ \E i \in GenIds : InnerResume(i) \/ InnerDeliver(i) \/ Forward(i)
     \/ ChainWake
     \/ ChainPull
  /\ UNCHANGED <<cellVars, tableVars, regVars, svcVars>>

InitRepoint == Init /\ CellUnused /\ ChainUnused /\ PermUnused /\ UserUnused /\ RaceUnused /\ AccountUnused
FairSpecChain == InitRepoint /\ [][ChainNext]_vars /\ WF_vars(ChainRun)

InitRegistry == Init /\ CellUnused /\ ChainUnused /\ PermUnused /\ UserUnused /\ RaceUnused /\ AccountUnused
SpecRegistry == InitRegistry /\ [][RegNext]_vars

\* One call of a method of the apps service on any of the tables; the
\* engine runs the method's statements to its end.
InitPerm == Init /\ CellUnused /\ ChainUnused /\ UserUnused /\ RaceUnused /\ AccountUnused
SpecPerm == InitPerm /\ [][PermNext]_vars
FairSpecPerm == InitPerm /\ [][PermNext]_vars /\ WF_vars(PermRun)

\* Apps are set up, entry channels set up and redeemed, timers fire.
InitToken == Init /\ CellUnused /\ ChainUnused /\ PermUnused /\ UserUnused /\ RaceUnused /\ AccountUnused
SpecToken == InitToken /\ [][TokenNext]_vars

\* The user state of one account, everything else left alone.
InitUser == Init /\ CellUnused /\ ChainUnused /\ PermUnused /\ RaceUnused /\ AccountUnused
SpecUser == InitUser /\ [][UserNext]_vars

\* The permission lists of the apps service.
InitList == Init /\ CellUnused /\ ChainUnused /\ PermUnused /\ UserUnused /\ RaceUnused /\ AccountUnused
SpecList == InitList /\ [][ListNext]_vars

\* Concurrent start() calls of the Matrix service.
InitRace == Init /\ CellUnused /\ ChainUnused /\ PermUnused /\ UserUnused /\ AccountUnused
SpecRace == InitRace /\ [][RaceNext]_vars

\* The accounts service.
InitAccount == Init /\ CellUnused /\ ChainUnused /\ PermUnused /\ UserUnused /\ RaceUnused
SpecAccount == InitAccount /\ [][AccountNext]_vars

\* ------------------------------------------------------ chain: properties

\* return() has reached inner generator i: it is queued behind a pending
\* next(), or the generator has completed.
Signalled(i) == igen[i].returns \/ igen[i].pc = "done"
Started(i) == igen[i].pc \notin {"none", "start"}
PushStep == Len(out') = Len(out) + 1
Pushed == out'[Len(out')]
Stripped(q) == [k \in 1..Len(q) |-> [gen |-> q[k].gen, src |-> q[k].src, val |-> q[k].val]]
Ordered(q) == \A j, k \in 1..Len(q) : j < k => q[j].gen <= q[k].gen

\* C9 as stated: once chainGen has switched to a new inner stream, no value
\* of an earlier inner stream is delivered to the consumer (`at` is pub_gen
\* when the consumer's next() was answered).
C9_NoOldValueDelivered ==
  \A k \in 1..Len(crecv) : crecv[k].gen = crecv[k].at

\* C9, what chainGen and the pusher do guarantee: once chainGen has switched,
\* no value of the earlier inner stream is forwarded into the output any
\* more, so the first value forwarded after the switch is one of the new
\* stream; the consumer receives the forwarded values in the order they were
\* forwarded, none lost: values of A still queued at the switch are
\* delivered after it, and always before every value of B.
C9_PushStep == PushStep => Pushed.gen = pub_gen /\ pub_gen' = pub_gen

C9_Fifo ==
  /\ Stripped(crecv) \o outbound_value_queue = out
  /\ Ordered(crecv)
  /\ \A k \in 1..Len(crecv) : crecv[k].gen <= crecv[k].at

C9_FifoDelivery == [][C9_PushStep]_vars /\ []C9_Fifo

\* The consumer received a value of A after the switch to B, then one of B.
C9_Witness ==
  /\ Len(crecv) = 2
  /\ crecv[1].src = "A" /\ crecv[1].gen = 1 /\ crecv[1].at = 2
  /\ crecv[2].src = "B" /\ crecv[2].gen = 2

\* C10: every inner stream other than the current one has been signalled to
\* stop, so at most one is live; the switch signals the old one in the step
\* that starts the new one; a value is pushed only by the current stream,
\* never by a signalled one; the output never interleaves two streams.
C10_Step ==
  /\ PushStep => /\ Pushed.gen = pub_gen
                 /\ ~Signalled(Pushed.gen)
                 /\ Pushed.val = igen[Pushed.gen].tval
  /\ pub_gen' # pub_gen =>
       /\ pub_gen # 0 => igen'[pub_gen].returns \/ igen'[pub_gen].pc = "done"
       /\ igen[pub_gen'].pc = "start"
       /\ igen'[pub_gen'].pc \notin {"none", "start"}
       /\ out' = out

C10_Inv ==
  /\ \A i \in GenIds : Started(i) /\ i # pub_gen => Signalled(i)
  /\ Cardinality({i \in GenIds : Started(i) /\ ~Signalled(i)}) <= 1
  /\ Ordered(out)

C10_OneLiveInner == [][C10_Step]_vars /\ []C10_Inv

\* After the switch the old inner stream produced a value, and its
\* startChaining loop ended without pushing it; both streams have pushed.
C10_Witness ==
  /\ pub_gen = 2
  /\ igen[1].returns
  /\ igen[1].tpc = "done"
  /\ Len(out) = 2
  /\ igen[1].tval # out[1].val
  /\ out[1].gen = 1 /\ out[2].gen = 2

\* C12: a consumer that subscribed through chainMapGen while the outer
\* source held nothing receives the placeholder first; whatever is written
\* afterwards, to the outer source or to an instance's cell alone, in the
\* end the last value forwarded is the current value of the current source
\* (the placeholder if there is none), and the consumer has received every
\* forwarded value, in order, or has used up its calls of next().
Current == IF ocell = "none" THEN Placeholder ELSE icell[ocell]

C12_PlaceholderFirst ==
  /\ out # <<>> => out[1].val = Placeholder
  /\ crecv # <<>> => crecv[1].val = Placeholder
  /\ Stripped(crecv) \o outbound_value_queue = out

C12_Settled ==
  /\ out # <<>>
  /\ out[Len(out)].src = ocell
  /\ out[Len(out)].val = Current
  /\ outbound_value_queue = <<>> \/ (npulls = MaxChainPulls /\ cpc = "idle")

C12_Repoint == []C12_PlaceholderFirst /\ <>[]C12_Settled

\* The consumer received the placeholder, then, after the one write to the
\* outer source, the cell value of instance A and then its changed value.
C12_Witness ==
  /\ nosets = 1
  /\ Len(crecv) = 3
  /\ crecv[1].val = Placeholder
  /\ crecv[2].src = "A" /\ crecv[2].val = "p"
  /\ crecv[3].src = "A" /\ crecv[3].val = "q"

\* ----------------------------------------------- chain: stop properties

\* The consumer has stopped the chained stream; k is the position of the
\* result of its return() among the results it was given.
StopIndex == CHOOSE k \in 1..Len(crecv) : crecv[k].val = "returned"

\* A step in which the chain calls next() on the outer stream or on an
\* inner stream.
PullsInner(i) == igen[i].pc \in {"start", "yield"} /\ igen'[i].pc \notin {igen[i].pc, "done"}
PullsOuter == opc = "yield" /\ opc' = "await"

\* C11 as stated: once the consumer has stopped the chained stream, the stop
\* has reached the inner stream that is current, the chain calls next() on
\* no inner stream and not on the outer stream, and no wake-callback of the
\* chain is registered (or gets registered) in an inner or the outer source.
C11_StepAfterStop ==
  isdone =>
    /\ ~PullsOuter
    /\ \A i \in GenIds : ~PullsInner(i)
    /\ ocallbacks' \subseteq ocallbacks
    /\ \A s \in Sources : icallbacks'[s] \subseteq icallbacks[s]

C11_Stopped ==
  isdone =>
    /\ pub_gen # 0 => Signalled(pub_gen)
    /\ ocallbacks = {}
    /\ \A s \in Sources : icallbacks[s] = {}

C11_StopPropagates == [][C11_StepAfterStop]_vars /\ []C11_Stopped

\* After the stop the inner stream was woken by a set of its source, pushed
\* a value into the output and registered a callback again; the outer
\* generator's callback is still registered.
C11_Witness ==
  /\ isdone
  /\ Len(out) > crecv[StopIndex].nout
  /\ pub_gen # 0
  /\ igen[pub_gen].src # "none"
  /\ pub_gen \in icallbacks[igen[pub_gen].src]
  /\ ~Signalled(pub_gen)
  /\ "outer" \in ocallbacks

\* C13 as stated: every next() the consumer calls on the chained stream
\* after it has stopped the stream fails with an error; none returns a value
\* that was queued before the stop.
C13_PullAfterStopFails ==
  isdone => \A k \in (StopIndex + 1)..Len(crecv) : crecv[k].val = "error"

\* A next() called after the stop returned a value that had been pushed
\* before the stop.
ValuesUpTo(k) == Cardinality({j \in 1..k : crecv[j].gen # 0})

C13_Witness ==
  /\ isdone
  /\ \E k \in (StopIndex + 1)..Len(crecv) :
        /\ crecv[k].gen # 0
        /\ ValuesUpTo(k) <= crecv[StopIndex].nout

\* ------------------------------------------------- cell: stop properties

\* A subscription is live from its first next() until it is stopped.
Live(s) == gpc[s] \notin {"start", "done"}

\* C14 as stated: the callbacks registered on the cell are at most as many
\* as the live subscriptions, and a stopped subscription holds none.
C14_NoLeak ==
  /\ Cardinality(callbacks) <= Cardinality({s \in Subs : Live(s)})
  /\ \A s \in Subs : gpc[s] = "done" => s \notin callbacks

\* Both subscriptions were stopped and no set followed: both callbacks are
\* still registered.
C14_Witness ==
  /\ \A s \in Subs : gpc[s] = "done"
  /\ callbacks = Subs

\* --------------------------------------------------- registry: properties

Registered(d) == \E i \in 1..Len(services) : services[i] = d
IdTaken(id) == \E i \in 1..Len(services) : addrsEqual(IdOf(services[i]), id)
ApplicableIn(d, req) == {k \in 1..Len(VersionsOf(d)) : Applicable(VersionsOf(d)[k], req)}
LastOf(S) == CHOOSE k \in S : \A j \in S : j <= k
RegStateUnchanged ==
  UNCHANGED <<services, services_active, service_instaces, nconstructed, nregisterAll>>

\* C15: every constructor has created at most one instance, registerAll was
\* called once for each instance, every version set up belongs to a
\* descriptor whose constructor has its instance; setting up a version that
\* is set up already returns that version and changes nothing.
C15_OneInstance ==
  /\ \A c \in Constructors :
        /\ nconstructed[c] <= 1
        /\ nregisterAll[c] = nconstructed[c]
        /\ c \in MapKeys(service_instaces) <=> nconstructed[c] = 1
  /\ \A a \in services_active : ServiceOf(a[1]) \in MapKeys(service_instaces)

C15_ActiveStep ==
  (/\ rlast'.op = "setupServiceVersion"
   /\ Registered(rlast'.arg)
   /\ ApplicableIn(rlast'.arg, rlast'.req) # {}
   /\ <<rlast'.arg, LastOf(ApplicableIn(rlast'.arg, rlast'.req))>> \in services_active)
  => /\ rlast'.kind = "return"
     /\ rlast'.value = VersionsOf(rlast'.arg)[LastOf(ApplicableIn(rlast'.arg, rlast'.req))]
     /\ RegStateUnchanged

C15_SingleInstance == []C15_OneInstance /\ [][C15_ActiveStep]_vars

\* Both versions of cli are set up and share the one instance.
C15_Witness ==
  /\ <<"cli", 1>> \in services_active
  /\ <<"cli", 2>> \in services_active
  /\ nconstructed["CliService"] = 1
  /\ nregisterAll["CliService"] = 1

\* C16: when setupServiceVersion(service, req) returns, it returns the
\* version of the last entry of service.versions with major = req[0] and
\* minor >= req[1], and undefined exactly when there is no such entry; for a
\* registered service without such an entry it does return (undefined).
C16_ActivateStep ==
  rlast'.op = "setupServiceVersion" =>
    LET S == ApplicableIn(rlast'.arg, rlast'.req)
    IN /\ rlast'.kind = "return" =>
            rlast'.value = IF S = {} THEN NoVersion
                           ELSE VersionsOf(rlast'.arg)[LastOf(S)]
       /\ (S = {} /\ Registered(rlast'.arg)) => rlast'.kind = "return"

C17_UniqueIds ==
  \A i, j \in 1..Len(services) :
    i # j => ~addrsEqual(IdOf(services[i]), IdOf(services[j]))

C17_RegisterStep ==
  (/\ \/ rlast'.op = "registerService"
      \/ rlast'.op = "setupServiceVersion" /\ ~Registered(rlast'.arg)
   /\ IdTaken(IdOf(rlast'.arg)))
  => /\ rlast'.kind = "throw"
     /\ rlast'.error = "already registered"
     /\ services' = services

C17_NoDuplicateId == []C17_UniqueIds /\ [][C17_RegisterStep]_vars

\* Setting up dup, whose id is that of acc, was refused.
C17_Witness ==
  /\ rlast.op = "setupServiceVersion"
  /\ rlast.arg = "dup"
  /\ rlast.kind = "throw"
  /\ rlast.error = "already registered"
  /\ ~Registered("dup")

\* C18 as stated: no registered descriptor has two versions with the same
\* major.
C18_NoDuplicateMajor ==
  \A i \in 1..Len(services) :
    \A j, k \in 1..Len(VersionsOf(services[i])) :
      j # k => VersionsOf(services[i])[j][1] # VersionsOf(services[i])[k][1]

\* registerService accepted ext, which lists three versions of major 1.
C18_Witness ==
  /\ rlast.op = "registerService"
  /\ rlast.arg = "ext"
  /\ rlast.kind = "return"
  /\ Registered("ext")

\* C19 as stated, for a batch of one request for a registered service whose
\* constructor cannot fail: if some acceptable version resolves, the call
\* returns, reports the version the first of them resolves to, and sets up
\* no other version of the service.
Resolving(d, versions) == {k \in 1..Len(versions) : ApplicableIn(d, versions[k]) # {}}
FirstOf(S) == CHOOSE k \in S : \A j \in S : k <= j

C19_BatchStep ==
  (/\ rlast'.op = "requestServices"
   /\ Len(rlast'.arg) = 1
   /\ getService(RegState, rlast'.arg[1].id) # "none")
  => LET d == getService(RegState, rlast'.arg[1].id)
         vs == rlast'.arg[1].versions
         R == Resolving(d, vs)
         k == LastOf(ApplicableIn(d, vs[FirstOf(R)]))
     IN (R # {} /\ (HasInstance(RegState, d) \/ DepsOf(d) = <<>>))
        => /\ rlast'.kind = "return"
           /\ rlast'.value[1].version = VersionsOf(d)[k]
           /\ \A a \in services_active' \ services_active : a[1] = d => a[2] = k

C19_FirstResolvingWins == [][C19_BatchStep]_vars

\* The request for ext with acceptable versions [1, 2], [0, 1] was refused
\* although [1, 2] resolved and its version was set up.
C19_Witness ==
  /\ rlast.op = "requestServices"
  /\ rlast.arg = << [id |-> <<"ext">>, versions |-> << <<1, 2>>, <<0, 1>> >>] >>
  /\ rlast.kind = "throw"
  /\ rlast.error = "unable to find suitable version"
  /\ <<"ext", 3>> \in services_active

\* C20: getServiceDependency(id, req) throws its not-found error when no
\* registered descriptor has the id, and throws when the descriptor has no
\* version of major req[0] and minor >= req[1]; when it returns, it returns
\* the one instance of the descriptor's constructor, and a version of the
\* descriptor with that major and a minor >= req[1] is set up.
C20_DependencyStep ==
  rlast'.op = "getServiceDependency" =>
    LET d == getService(RegState, rlast'.arg)
    IN /\ d = "none" => rlast'.kind = "throw" /\ rlast'.error = "requested, but not found"
       /\ (d # "none" /\ ApplicableIn(d, rlast'.req) = {}) =>
            rlast'.kind = "throw" /\ rlast'.error = "version not found"
       /\ rlast'.kind = "return" =>
            /\ d # "none"
            /\ rlast'.value = ServiceOf(d)
            /\ ServiceOf(d) \in MapKeys(service_instaces')
            /\ nconstructed'[ServiceOf(d)] = 1
            /\ \E a \in services_active' :
                 a[1] = d /\ Applicable(VersionsOf(d)[a[2]], rlast'.req)

C20_GetDependency == [][C20_DependencyStep]_vars

\* getServiceDependency(cli, [0, 1]) returned cli's instance, whose
\* constructor obtained the instance of ext.
C20_Witness ==
  /\ rlast.op = "getServiceDependency"
  /\ rlast.arg = IdOf("cli")
  /\ rlast.req = <<0, 1>>
  /\ rlast.kind = "return"
  /\ rlast.value = "CliService"
  /\ <<"cli", 1>> \in services_active
  /\ <<"ext", 3>> \in services_active

\* C21: a service whose constructor calls getServiceDependency has its
\* instance only together with its dependencies: each dependency's
\* descriptor is registered, its constructor created exactly one instance,
\* that instance entered the instance map before the dependent's own, and a
\* version compatible with the constructor's request is set up.  A
\* setupServiceVersion that returns a version leaves the service in the
\* instance map, hence with all of this.
PositionOf(c) == CHOOSE i \in 1..Len(service_instaces) : service_instaces[i] = c

C21_DependencyReady(d, dep) ==
  LET e == getService(RegState, dep.id)
  IN /\ e # "none"
     /\ ServiceOf(e) \in MapKeys(service_instaces)
     /\ nconstructed[ServiceOf(e)] = 1
     /\ PositionOf(ServiceOf(e)) < PositionOf(ServiceOf(d))
     /\ \E a \in services_active :
          a[1] = e /\ Applicable(VersionsOf(e)[a[2]], dep.req)

C21_Ready ==
  \A d \in Descs :
    ServiceOf(d) \in MapKeys(service_instaces) =>
      \A k \in 1..Len(DepsOf(d)) : C21_DependencyReady(d, DepsOf(d)[k])

C21_ActivateStep ==
  (/\ rlast'.op = "setupServiceVersion"
   /\ rlast'.kind = "return"
   /\ rlast'.value # NoVersion)
  => ServiceOf(rlast'.arg) \in MapKeys(service_instaces')

C21_DependenciesFirst == []C21_Ready /\ [][C21_ActivateStep]_vars

\* Setting up mxbindings alone, on the worker as constructed, left accounts
\* and apps with their instances, created in the order the constructor of
\* mxbindings asks for them, and a version of each set up.
C21_Witness ==
  /\ rlast.op = "setupServiceVersion"
  /\ rlast.arg = "mx"
  /\ rlast.kind = "return"
  /\ service_instaces = <<"AccountsService", "AppsService", "MatrixService">>
  /\ services_active = {<<"acc", 1>>, <<"apps", 1>>, <<"mx", 1>>}


\* The version setupServiceVersion answers a request with, by the scan.
Answer(d, req) ==
  IF SelectVersion(d, req) = 0 THEN NoVersion ELSE VersionsOf(d)[SelectVersion(d, req)]
Minimum(req) == <<req[1], req[2]>>

\* C38: the patch component of a requested version does not affect
\* resolution: a request (M, m, p) is answered with the version the request
\* (M, m) is answered with.
C38_PatchIgnored ==
  (rlast.op = "setupServiceVersion" /\ rlast.kind = "return" /\ Len(rlast.req) = 3)
    => rlast.value = Answer(rlast.arg, Minimum(rlast.req))

\* The exact request 1.2.9 on ext was answered with 1.2.5.
C38_Witness ==
  /\ rlast.op = "setupServiceVersion"
  /\ rlast.kind = "return"
  /\ rlast.arg = "ext"
  /\ rlast.req = <<1, 2, 9>>
  /\ rlast.value = <<1, 2, 5>>
  /\ <<"ext", 3>> \in services_active


\* A call that failed: it threw, or setupServiceVersion resolved no version.
Failed(r) ==
  \/ r.kind = "throw"
  \/ r.op = "setupServiceVersion" /\ r.value = NoVersion

\* C34: a registry operation that fails leaves the set of active versions
\* and the instance map as they were before the call.
C34_FailureFrame ==
  [][Failed(rlast') =>
       (services_active' = services_active /\ service_instaces' = service_instaces)]_vars

\* A batch whose second request names an id nobody registered threw, and the
\* version its first request asked for is active.
C34_Witness ==
  /\ rlast.op = "requestServices"
  /\ rlast.kind = "throw"
  /\ rlast.error = "not registered"
  /\ Len(rlast.arg) = 2
  /\ rlast.arg[1].id = IdOf("ext")
  /\ services_active = {<<"ext", 3>>}
  /\ service_instaces = <<"ExtService">>

\* ------------------------------------------------ permissions: properties

SetOf(q) == {q[i] : i \in 1..Len(q)}
GrantedIds == SetOf(grant_log)
TimesGranted(id) == Cardinality({i \in 1..Len(grant_log) : grant_log[i] = id})
InTable(id) == id \in PermIds /\ ptable[id].present
InheritsOf(id) == IF InTable(id) THEN SetOf(inherits(id)) ELSE {}

\* The ids a traversal from the ids of S reaches along inherits.
RECURSIVE ClosureOf(_)
ClosureOf(S) ==
  LET T == S \cup UNION {InheritsOf(id) : id \in S}
  IN IF T = S THEN S ELSE ClosureOf(T)

\* The ids a permission inherits, directly or not.
Ancestors(id) == ClosureOf(InheritsOf(id))
KnownIn(S) == {id \in S : InTable(id)}
Applied == pop = "apply" /\ pres = "return"
Resolved == pop = "resolve" /\ pres = "return"

\* The table {X: inherits [], Y: inherits [X]} beside 'a.services.request'.
XYTable ==
  [id \in PermIds |->
     IF id = "Z" THEN NoEntry
     ELSE [present |-> TRUE, inherits |-> IF id = "Y" THEN <<"X">> ELSE <<>>]]

C23_ExactlyRequestClosure ==
  Applied =>
    /\ \A id \in PermIds : TimesGranted(id) <= 1
    /\ GrantedIds = KnownIn(ClosureOf(SetOf(prequest)))

\* C23: at every moment of a call no grant has been invoked twice and only
\* known permissions of the closure have been granted; when the call
\* returns, the permissions granted are exactly the known ones in the
\* inheritance closure of the request list followed by
\* 'a.services.request', which the method adds to every list.
C23_AtMostOnce ==
  /\ \A id \in GrantedIds : TimesGranted(id) = 1
  /\ GrantedIds \subseteq KnownIn(ClosureOf(SetOf(TopList)))
  /\ Applied => GrantedIds = KnownIn(ClosureOf(SetOf(TopList)))

\* Y inherits [X, Z] and Z inherits [X]: the request [Y, Y] granted X once,
\* although three paths lead to it.
C23_Witness ==
  /\ Applied
  /\ ptable["Y"].inherits = <<"X", "Z">>
  /\ ptable["Z"] = [present |-> TRUE, inherits |-> <<"X">>]
  /\ ptable["X"] = [present |-> TRUE, inherits |-> <<>>]
  /\ prequest = <<"Y", "Y">>
  /\ grant_log = <<"X", "Z", "Y", DefaultId>>

\* C24: a call of either method, once started, comes to its end; the calls
\* nested at any moment are calls for different permissions of the table,
\* so there are never more of them than the table has entries.
C24_Nested ==
  /\ Len(pstack) <= Cardinality(PermIds)
  /\ \A i, j \in 1..Len(pstack) : i # j => pstack[i].perm # pstack[j].perm
  /\ \A i \in 1..Len(pstack) : InTable(pstack[i].perm)

C24_Terminates ==
  []C24_Nested /\ ((pop # "idle") ~> (pres \in {"return", "throw"}))

\* Both methods returned on tables with a cycle: X inherits [Y] and
\* Y inherits [X].
C24_Witness ==
  /\ pres = "return"
  /\ ptable["X"] = [present |-> TRUE, inherits |-> <<"Y">>]
  /\ ptable["Y"] = [present |-> TRUE, inherits |-> <<"X">>]
  /\ prequest = <<"X">>
  /\ \/ pop = "apply" /\ grant_log = <<"Y", "X", DefaultId>>
     \/ pop = "resolve" /\ Cardinality(known_permissions) = 2

\* C25: with {X: inherits [], Y: inherits [X]}, the calls for [X, Y],
\* [Y, X] and [Y, Y] on a fresh map invoke the grants in the same order X,
\* Y, 'a.services.request' and leave the same policies in the map.
XYAcl(rm) ==
  [a \in Addrs |->
     IF a = "services" THEN "ALLOW"
     ELSE IF ~rm THEN "unset"
     ELSE IF a = "r" THEN "DENY" ELSE "ALLOW"]

C25_SameAcl ==
  (/\ Applied
   /\ ptable = XYTable
   /\ prequest \in {<<"X", "Y">>, <<"Y", "X">>, <<"Y", "Y">>})
  => /\ grant_log = <<"X", "Y", DefaultId>>
     /\ acl = XYAcl(room)

\* The call for [Y, X] with a room in the context has returned: q, which X
\* denies and Y allows, is allowed.
C25_Witness ==
  /\ Applied
  /\ ptable = XYTable
  /\ prequest = <<"Y", "X">>
  /\ room
  /\ acl["q"] = "ALLOW"
  /\ acl = XYAcl(TRUE)

\* C26: a grantOn that throws is caught: the step leaves the call running,
\* one addPermission returned, the map untouched and a warning logged; the
\* call never ends with an exception on account of a grant (it does only
\* for a request that names an inherited property), and when it returns every
\* known permission of the closure has had its grant invoked, the ones after a
\* failed one and the ones that inherit a failed one included.
GrantStep == grant_log' # grant_log
C26_CaughtStep ==
  (GrantStep /\ Throws(Top.perm, room))
  => /\ pres' = "running"
     /\ pstack' = Front
     /\ acl' = acl
     /\ warned' = Append(warned, <<Top.perm, "failed to grant">>)

C26_AllInvoked ==
  /\ pres = "throw" => pop = "apply" /\ InheritedName \in SetOf(prequest)
  /\ Applied => \A id \in KnownIn(ClosureOf(SetOf(TopList))) : TimesGranted(id) = 1

C26_GrantFailureNotFatal == []C26_AllInvoked /\ [][C26_CaughtStep]_vars

\* Without a room, the call for [Y, Z] where Y inherits X: the
\* grants of X and Y threw, those of Z and 'a.services.request' were
\* invoked after them and took effect.
C26_Witness ==
  /\ Applied
  /\ ptable = DefaultTable
  /\ ~room
  /\ prequest = <<"Y", "Z">>
  /\ grant_log = <<"X", "Y", "Z", DefaultId>>
  /\ warned = << <<"X", "failed to grant">>, <<"Y", "failed to grant">> >>
  /\ acl["p"] = "DENY" /\ acl["services"] = "ALLOW"

\* C27 as stated: an id the table does not hold never makes the call fail,
\* no grant is invoked for it, and a call whose request or inherits name
\* such ids returns with every known permission of the closure granted.
C27_UnknownSkipped ==
  /\ pop = "apply" => pres # "throw"
  /\ \A id \in GrantedIds : InTable(id)
  /\ (pop = "apply" /\ pres \in {"return", "throw"}) =>
       GrantedIds = KnownIn(ClosureOf(SetOf(TopList)))

\* The call for ['constructor', X] ended with the TypeError of
\* `perm_obj.inherits.forEach`; neither X nor 'a.services.request' was
\* granted.
C27_Witness ==
  /\ pop = "apply"
  /\ pres = "throw"
  /\ prequest = <<InheritedName, "X">>
  /\ InTable("X")
  /\ grant_log = <<>>
  /\ acl = [a \in Addrs |-> "unset"]

\* C28 as stated: the report has a known entry {id -> inherits} for exactly
\* the ids of the closure of the requested list that the table holds, its
\* unknown list holds exactly the reached ids that the table does not hold,
\* and the map of policies is as it was.
C28_Report ==
  Resolved =>
    /\ known_permissions =
         {<<id, inherits(id)>> : id \in KnownIn(ClosureOf(SetOf(prequest)))}
    /\ SetOf(unknown_permissions) =
         {id \in ClosureOf(SetOf(prequest)) : ~InTable(id)}
    /\ acl = [a \in Addrs |-> "unset"] /\ granted = {} /\ grant_log = <<>>

\* The report for ['constructor', Y] where Y inherits X: Y and X
\* are known, and 'constructor' is in neither list.
C28_Witness ==
  /\ Resolved
  /\ ptable = DefaultTable
  /\ prequest = <<InheritedName, "Y">>
  /\ known_permissions = {<<"Y", <<"X">> >>, <<"X", <<>> >>}
  /\ unknown_permissions = <<>>

\* Y and X are in the table, Y inherits X, and a call whose request list
\* contains Y has returned; with a room in the context both grants put a
\* policy at q (X denies, Y allows).
YOverX ==
  /\ Applied
  /\ room
  /\ InTable("X") /\ InTable("Y")
  /\ "X" \in InheritsOf("Y")
  /\ "Y" \in SetOf(prequest)

Allowing(addr) ==
  {id \in PermIds : \E i \in 1..Len(Puts(id)) : Puts(id)[i] = <<addr, "ALLOW">>}

\* C35: the channel of setupAndGetEntryChannel denies every address before
\* the first grant; when the call returns, requestServices is allowed
\* whatever the app's permission list is; and any other address is allowed
\* only if a permission of the inheritance closure of the app's list whose
\* grant allows it has been granted.
C35_EntryPolicy ==
  /\ (pop = "apply" /\ grant_log = <<>>) => \A a \in Addrs : PolicyAt(acl, a) = "DENY"
  /\ Applied => PolicyAt(acl, "services") = "ALLOW"
  /\ \A a \in Addrs \ {"services"} :
       PolicyAt(acl, a) = "ALLOW" =>
         \E id \in Allowing(a) :
           id \in GrantedIds /\ id \in KnownIn(ClosureOf(SetOf(prequest)))

\* The call for an app with the list [not.a.real.permission] has returned:
\* requestServices is allowed and nothing else is.
C35_Witness ==
  /\ Applied
  /\ prequest = <<UnknownId>>
  /\ grant_log = <<DefaultId>>
  /\ PolicyAt(acl, "services") = "ALLOW"
  /\ \A a \in Addrs \ {"services"} : PolicyAt(acl, a) = "DENY"

\* ------------------------------------------------ entry tokens: properties

TokenStateUnchanged == UNCHANGED <<app_tokens, timers, spent>>
Spent(t) == \E e \in spent : e[1] = t

\* C29: a token is in the table exactly while its timer is pending, and no
\* two tokens hold the same port.  setupEntryChannel for an app that is not
\* registered throws 'App has not been registered' and leaves the tokens as
\* they are.  redeemEntryToken(t) while t's timer is pending returns the
\* port and context stored for t and removes t and its timer; for a token
\* redeemed or expired before - for every token not in the table - it
\* throws 'Token does not exist or has expired' and changes nothing.
C29_Pending ==
  /\ DOMAIN app_tokens = timers
  /\ \A t \in Tokens : Spent(t) => t \notin DOMAIN app_tokens
  /\ \A t1, t2 \in DOMAIN app_tokens :
       t1 # t2 => app_tokens[t1].port # app_tokens[t2].port

C29_Step ==
  /\ (elast'.op = "setupEntryChannel" /\ elast'.arg \notin DOMAIN known_apps)
     => /\ elast'.kind = "throw"
        /\ elast'.error = "App has not been registered"
        /\ TokenStateUnchanged
        /\ nchannels' = nchannels
  /\ (elast'.op = "setupEntryChannel" /\ elast'.kind = "return")
     => /\ elast'.value \notin DOMAIN app_tokens
        /\ elast'.value \in DOMAIN app_tokens'
        /\ app_tokens'[elast'.value].context.app_url = elast'.arg
  /\ (elast'.op = "redeemEntryToken" /\ elast'.arg \in timers)
     => /\ elast'.kind = "return"
        /\ elast'.value = app_tokens[elast'.arg]
        /\ elast'.arg \notin DOMAIN app_tokens'
        /\ elast'.arg \notin timers'
        /\ <<elast'.arg, "redeemed">> \in spent'
  /\ (elast'.op = "redeemEntryToken" /\ (elast'.arg \notin timers \/ Spent(elast'.arg)))
     => /\ elast'.kind = "throw"
        /\ elast'.error = "Token does not exist or has expired"
        /\ TokenStateUnchanged

C29_SingleUse == []C29_Pending /\ [][C29_Step]_vars

\* The one token issued was redeemed, and the redeem that followed failed.
C29_Witness ==
  /\ nchannels = 1
  /\ spent = {<<"t1", "redeemed">>}
  /\ elast = Outcome("redeemEntryToken", "t1", "throw", <<>>,
                     "Token does not exist or has expired")

\* ------------------------------------------------- user state: properties

\* The states the transitions of a start and a stop are reported as.
Transitions == <<"INACTIVE", "STARTING", "ACTIVE", "INACTIVE">>
IsPrefix(s, t) == Len(s) <= Len(t) /\ \A i \in 1..Len(s) : s[i] = t[i]

\* C30: for an account with stored credentials, a listenUserState subscriber
\* that calls next() once before start(), once while the client is starting,
\* once after the first successful sync and once after stop() receives
\* INACTIVE, STARTING, ACTIVE, INACTIVE in that order and nothing else in
\* between.
C30_Transitions == on_time => IsPrefix(delivered, Transitions)

\* It does hold for an account whose credentials are in the cache.
CachedTransitions == (on_time /\ credentials = "cached") => IsPrefix(delivered, Transitions)
CachedWitness == on_time /\ credentials = "cached" /\ delivered = Transitions

\* The second next() call, made while the client is starting, was answered
\* with a second INACTIVE.
C30_Witness ==
  /\ credentials = "stored"
  /\ on_time
  /\ delivered = <<"INACTIVE", "INACTIVE">>
  /\ state = "STARTING"

\* ------------------------------------------- permission lists: properties

KeysOf(p) == {p[i][1] : i \in DOMAIN p}
TrueKeys(p) == {p[i][1] : i \in {j \in DOMAIN p : p[j][2]}}
FalseKeys(p) == {p[i][1] : i \in {j \in DOMAIN p : ~p[j][2]}}

\* The entries of a list that are no key of p, in their order.
Others(list, p) == SelectSeq(list, LAMBDA x : x \notin KeysOf(p))

NoDuplicate(list) == \A i, j \in 1..Len(list) : list[i] = list[j] => i = j

\* What a setPermissions call leaves behind, but for the wake-up.
SetOutcome ==
  /\ slast.kind = "throw" => slast.entry = 0
  /\ slast.kind = "return" =>
       /\ slast.entry # 0
       /\ \A k \in TrueKeys(slast.p) : includes(perm_list, k)
       /\ \A k \in FalseKeys(slast.p) : ~includes(perm_list, k)
       /\ Others(perm_list, slast.p) = Others(slast.before, slast.p)
       /\ NoDuplicate(perm_list)

\* C32 as stated: setPermissions throws for an app that is not registered;
\* otherwise the list then holds every key given as true and no key given
\* as false, keeps its other entries in order and has no duplicate, and a
\* subscriber that was waiting is woken.
C32_WakesAlways ==
  /\ SetOutcome
  /\ (slast.kind = "return" /\ slast.pending) => slast.woke

\* C32: the same, the subscriber being woken when the call changed the
\* list or gave a key as true (a call that finds nothing to add or remove
\* runs no callback).
C32_SetPermissions ==
  /\ SetOutcome
  /\ (slast.kind = "return" /\ slast.pending
        /\ (perm_list # slast.before \/ TrueKeys(slast.p) # {})) => slast.woke

C32_Witness ==
  /\ slast.kind = "return"
  /\ slast.before = <<"a", "b", "c">>
  /\ slast.p = <<<<"b", FALSE>>, <<"a", TRUE>>>>
  /\ perm_list = <<"a", "c">>
  /\ slast.pending
  /\ slast.woke

\* C36: a subscriber of a registered app misses nothing.  A change of the
\* list or a replacement of the entry after a yield has resolved one of the
\* promises the next pull races, so that pull is answered; and a yield is
\* the list of the entry as it is then (the list yielded last is the
\* current one until such a change).
C36_NeverMisses ==
  /\ (Subscribed /\ lp_app # 0 /\ lp_changed) => Woken
  /\ (Subscribed /\ lp_app # 0 /\ ~lp_changed) => (lp_last = perm_list /\ lp_app = app_entry)

C36_Witness ==
  /\ lp_pc = "racing"
  /\ lp_app = 1
  /\ app_entry = 2
  /\ lp_changed
  /\ Woken
  /\ lp_last = <<"a">>
  /\ perm_list = <<"a", "b">>

\* C37 as stated: the stream of an app that is not registered does not end
\* with an error.
C37_KeepsTracking == lp_pc # "thrown"

\* The first answer of such a stream is the empty list.
C37_FirstEmpty == (lp_pc = "yielded" /\ lp_app = 0) => lp_last = <<>>

C37_Witness ==
  /\ lp_pc = "thrown"
  /\ lp_last = <<>>
  /\ app_entry = 1
  /\ perm_list = <<"a">>

C39_OneInstance ==
  [][/\ r_ninst' <= 1
     /\ Cardinality(r_live') <= 1
     /\ (r_table # NoInst /\ r_table' # r_table) => ~active(r_table)]_vars

\* Two calls have returned; each made an instance and a client, and the
\* table holds the second instance only.
C39_Witness ==
  /\ r_cred = "stored"
  /\ \A t \in StartCalls : r_pc[t] = "done"
  /\ r_ninst = 2
  /\ r_table = 2
  /\ r_live = {<<1, 1>>, <<2, 2>>}

\* Two calls have returned and left one instance with two clients, of
\* which it holds one.
TwoClientsWitness ==
  /\ r_cred = "stored"
  /\ \A t \in StartCalls : r_pc[t] = "done"
  /\ r_ninst = 1
  /\ Cardinality(r_live) = 2

\* ---------------------------------------------- accounts service: properties

\* The ids of the stored list.
Persisted == IF isArray(a_stored) THEN a_stored.ids ELSE {}

\* Calls were made and every one of them has returned.
AllCompleted ==
  /\ has_lazy_loaded
  /\ \A t \in AccountCalls : ~Running(t)
  /\ a_queue = <<>>

\* C40 as stated: once all calls have completed the stored list is the set
\* of the ids in memory, and no id is ever dropped from the stored list.
C40_ListKept ==
  [][/\ AllCompleted' => Persisted' = a_map'
     /\ Persisted \subseteq Persisted']_vars

\* The same for calls that are made one after the other.
SequentialListKept ==
  [][~a_overlap' => /\ AllCompleted' => Persisted' = a_map'
                    /\ Persisted \subseteq Persisted']_vars

\* getAccounts and createAccount were called at once and have returned; the
\* stored list has lost the account of the earlier session, which the map
\* holds.
C40_Witness ==
  /\ AllCompleted
  /\ a_kind = <<"getAccounts", "createAccount">>
  /\ a_stored = ListOf({generateUniqueKey(2)})
  /\ a_map = {OldAccount, generateUniqueKey(2)}

\* ------------------------------------------------------ table: properties

\* A step that is a write through the proxy, its key, its value and the
\* value stored under the key before it.
WriteStep == nwrites' = nwrites + 1
WKey == lastWrite'.key
WVal == lastWrite'.val
WPrev == Lookup(map, WKey)
KeyWaiters(k) == IF k \in DOMAIN key_callbacks THEN key_callbacks[k] ELSE {}
WokenNow(g) == tpromise[g] = "pending" /\ tpromise'[g] = "resolved"

\* C5 as stated: every write to key k wakes all waiters of subscribeKey(k)
\* and of subscribeTable, also when it writes the value already stored
\* (checked on the writes of a present value, such as set(a, 1) on {a: 1}).
C5_WriteStep ==
  WriteStep /\ WVal \in Truthy =>
    /\ \A g \in KeyWaiters(WKey) \cup map_callbacks : WokenNow(g)
    /\ WKey \notin DOMAIN key_callbacks'
    /\ map_callbacks' = {}

C5_ChangeStep ==
  WriteStep =>
    IF WVal # WPrev
      THEN /\ \A g \in KeyWaiters(WKey) \cup map_callbacks : WokenNow(g)
           /\ WKey \notin DOMAIN key_callbacks'
           /\ map_callbacks' = {}
      ELSE /\ UNCHANGED <<map, tcallbacks, key_callbacks, map_callbacks, tpromise>>

C6_WriteStep ==
  WriteStep =>
    IF DOMAIN map' # DOMAIN map
      THEN /\ \A g \in tcallbacks : WokenNow(g)
           /\ tcallbacks' = {}
      ELSE /\ tcallbacks' = tcallbacks
           /\ tpromise'["gkeys"] = tpromise["gkeys"]

C6_KeysWakeIffKeySetChanges == [][C6_WriteStep]_vars

\* A write replaced the value of a present key by another one while the
\* generateKeys waiter was registered, and the waiter is still waiting.
C6_Witness ==
  /\ lastWrite.prev \in Truthy
  /\ lastWrite.val \in Truthy
  /\ lastWrite.val # lastWrite.prev
  /\ "gkeys" \in lastWrite.waiters
  /\ "gkeys" \in tcallbacks
  /\ tpromise["gkeys"] = "pending"

\* C7: no key of the table maps to a falsy value, and the present keys are
\* exactly the keys whose latest write was a truthy value, which they hold.
C7_NoFalsyEntries ==
  /\ \A k \in DOMAIN map : map[k] \in Truthy /\ map[k] = lastVal[k]
  /\ DOMAIN map = {k \in Keys : lastVal[k] \in Truthy}

\* A falsy value that is not undefined was written to a present key, which
\* is gone.
C7_Witness ==
  /\ lastWrite.key = "k1"
  /\ lastWrite.val = "0"
  /\ lastWrite.prev \in Truthy
  /\ "k1" \notin DOMAIN map

\* C8: a write that adds a key or replaces a key's value by a different one
\* leaves the table with all earlier entries plus that entry and wakes the
\* generateMap subscriber that has pulled; a subscriber not woken since its
\* last answer holds the current table, and each answer is the table as it
\* is when the answer is given.
C8_WriteStep ==
  /\ WriteStep /\ WVal \in Truthy /\ WVal # WPrev =>
       /\ map' = [k \in DOMAIN map \cup {WKey} |-> IF k = WKey THEN WVal ELSE map[k]]
       /\ tgpc["gmap"] # "start" => tpromise'["gmap"] = "resolved"
  /\ tgpc["gmap"] = "yielding" /\ tgpc'["gmap"] = "yield" => tlast'["gmap"] = map'

C8_Fresh ==
  tgpc["gmap"] \in {"yield", "await"} /\ tpromise["gmap"] = "pending"
    => tlast["gmap"] = map

C8_TableSubscriber == [][C8_WriteStep]_vars /\ []C8_Fresh

\* The generateMap subscriber was registered when a second key was added,
\* and its next pull gave the table with both entries.
C8_Witness ==
  /\ tpulls["gmap"] = 2
  /\ tgpc["gmap"] = "yield"
  /\ "gmap" \in lastWrite.waiters
  /\ lastWrite.prev = Undefined /\ lastWrite.val \in Truthy
  /\ DOMAIN map = Keys
  /\ tlast["gmap"] = map

\* ------------------------------------------------------- cell: properties

\* writes[t] is the value of the cell once t-1 sets were made; a pull record
\* carries the number of writes seen when next() was called (start) and when
\* it was answered (done).
Delivered(r) == r.val # NoVal

\* Some set among the sets a+1 .. b changed the value.
Changed(a, b) == \E j \in (a + 1)..b : j <= Len(writes) /\ writes[j] # writes[j - 1]

RECURSIVE IsSubseq(_, _)
IsSubseq(xs, ys) ==
  IF xs = <<>> THEN TRUE
  ELSE IF ys = <<>> THEN FALSE
  ELSE IF Head(xs) = Head(ys) THEN IsSubseq(Tail(xs), Tail(ys))
  ELSE IsSubseq(xs, Tail(ys))

RecvVals(s) ==
  LET d == SelectSeq(recv[s], Delivered)
  IN [i \in 1..Len(d) |-> d[i].val]

\* C1: after a pull returned and N >= 1 value-changing sets were made, the
\* next pull is never left waiting for a further set, and what it receives
\* is the value of the last of those sets or of a set made while it was
\* being answered: never one of the N-1 intermediate values.
C1_Conflation ==
  \A s \in Subs : \A i \in 2..Len(recv[s]) :
    LET prev == recv[s][i - 1]
        cur == recv[s][i]
    IN Changed(prev.done, cur.start) =>
         IF Delivered(cur)
           THEN /\ \E r \in cur.start..cur.done : cur.val = writes[r]
                /\ cur.done = cur.start => cur.val = writes[cur.start]
           ELSE \/ gpc[s] = "yielding"
                \/ gpc[s] = "await" /\ promise[s] = "resolved"

\* Two value-changing sets between two pulls; the second pull got the last
\* value and the intermediate one differs from it.
C1_Witness ==
  \E s \in Subs :
    /\ Len(recv[s]) = 2
    /\ Delivered(recv[s][2])
    /\ recv[s][2].start = recv[s][1].done + 2
    /\ recv[s][2].done = recv[s][2].start
    /\ writes[recv[s][2].start - 1] # writes[recv[s][2].start - 2]
    /\ writes[recv[s][2].start] # writes[recv[s][2].start - 1]
    /\ recv[s][2].val = value

\* C2: a set of a value unequal to the stored one invokes every callback
\* registered at that moment exactly once and leaves the callback set empty;
\* a set of the stored value invokes none and leaves the set as it was.
C2_SetStep ==
  Len(writes') = Len(writes) + 1 =>
    IF writes'[Len(writes')] # value
      THEN /\ callbacks' = {}
           /\ \A s \in Subs :
                 /\ wakes'[s] = wakes[s] + (IF s \in callbacks THEN 1 ELSE 0)
                 /\ s \in callbacks => promise'[s] = "resolved"
      ELSE /\ callbacks' = callbacks
           /\ wakes' = wakes
           /\ promise' = promise

C2_SetWakesAll == [][C2_SetStep]_vars

\* One set woke the callbacks of both generators at once.
C2_Witness ==
  /\ callbacks = {}
  /\ \A s \in Subs : wakes[s] = 1 /\ promise[s] = "resolved"
  /\ Len(writes) = 2

\* C3: what a subscriber receives is an in-order subsequence of the initial
\* value followed by the written values, and the answer to a pull called
\* after all sets is the final value.
C3_Subsequence ==
  \A s \in Subs :
    /\ IsSubseq(RecvVals(s), writes)
    /\ \A i \in 1..Len(recv[s]) :
         Delivered(recv[s][i]) /\ recv[s][i].start = Len(writes)
           => recv[s][i].val = value

\* A subscriber pulled once per set and holds two different values, the
\* last one the final value.
C3_Witness ==
  \E s \in Subs :
    /\ Len(RecvVals(s)) = 2
    /\ Len(writes) = 3
    /\ RecvVals(s)[1] # RecvVals(s)[2]
    /\ RecvVals(s)[2] = value
    /\ recv[s][2].start = Len(writes)

\* C4 as stated: a subscriber that pulls twice with no update in between
\* receives the same current value on both pulls, so its second pull is
\* answered, or can still be answered, without any set.
C4_SecondPullAnswered ==
  \A s \in Subs : \A i \in 2..Len(recv[s]) :
    recv[s][i - 1].start = Len(writes) =>
      \/ Delivered(recv[s][i]) /\ recv[s][i].val = recv[s][i - 1].val
      \/ gpc[s] = "yielding"
      \/ gpc[s] = "await" /\ promise[s] = "resolved"

\* C4 amended: with no set since its first pull was called, a subscriber
\* received the current value on that pull and its second pull stays
\* suspended on an unresolved promise; a second pull is only ever answered
\* after a value-changing set made since the first pull was called.
C4_SecondPullWaits ==
  \A s \in Subs : \A i \in 1..Len(recv[s]) :
    /\ i = 1 /\ Delivered(recv[s][i]) /\ recv[s][i].start = Len(writes)
         => recv[s][i].val = value
    /\ i >= 2 /\ recv[s][i - 1].start = Len(writes)
         => /\ ~Delivered(recv[s][i])
            /\ gpc[s] = "await"
            /\ promise[s] = "pending"
    /\ i >= 2 /\ Delivered(recv[s][i])
         => Changed(recv[s][i - 1].start, recv[s][i].done)

\* A second pull suspended with no set made since the first was called.
C4_Witness ==
  \E s \in Subs :
    /\ Len(recv[s]) = 2
    /\ recv[s][1].start = Len(writes)
    /\ recv[s][1].val = value
    /\ gpc[s] = "await"
====
